---- MODULE Spec2Model ----
(***************************************************************************)
(* Trust scoring and preflight decisions of Claw Trust Scores.             *)
(*                                                                         *)
(* Numbers.  JavaScript doubles are modelled by exact fractions:           *)
(*   - a confidence, a source factor and an event multiplier are counted   *)
(*     in twentieths (FactorScale), so 0.75 is 15 and 1 is 20;             *)
(*   - an age is a whole number of half-lives, so the decay factor         *)
(*     exp(-ln2 * age / 30) is the exact fraction 2^-(age/30), counted in  *)
(*     units of 1/DecayScale;                                              *)
(*   - a source quality factor is counted in hundredths.                   *)
(* Math.round is the rounding of the exact value, half up.                 *)
(* A field that is undefined (or not a finite number) is Undefined for a   *)
(* string and NoNumber for a number.                                       *)
(***************************************************************************)
EXTENDS Integers, Sequences, FiniteSets, TLC

VARIABLES
    eventsByAgentId,       \* store.eventsByAgentId: scope -> list of events
    policyByApiKey,        \* store.policyByApiKey: apiKey -> stored policy
    decisionLogsByApiKey,  \* store.decisionLogsByApiKey: apiKey -> rows, newest first
    users,                 \* the key store: live apiKey -> tier
    webhooksByApiKey,      \* store.webhooksByApiKey: apiKey -> list of webhooks
    webhookDeliveries,     \* store.webhookDeliveries: webhook id -> rows, newest first
    webhookSuppression,    \* store.webhookSuppression: <<webhook id, agentId>> in cooldown
    usageByMonthAndApiKey, \* store.usageByMonthAndApiKey, this month: apiKey -> usage
    processedInboundEvents,\* store.processedInboundEvents: <<apiKey, source, eventId>>
    inboundSecretsByApiKey,\* store.inboundSecretsByApiKey: apiKey -> ingest secret
    pendingDeliveries,     \* the calls of emitScoreAlerts that await postWebhook
    scored,                \* the ScoreResult the scoring engine returned last
    call,                  \* the handler call being answered: operation and inputs
    res                    \* the response of that call

\* what the rate limiter, the usage check and the duplicate checks keep, and
\* the deliveries in flight.  PostEventWith, GetScore and IngestVerifiedEvent
\* take the answers of those checks as inputs and deliver alerts within the
\* step; PostEventRequest, GetScoreRequest and IngestRequest read and write them.
bookkeeping ==
    <<usageByMonthAndApiKey, processedInboundEvents, inboundSecretsByApiKey,
      pendingDeliveries>>

vars == <<eventsByAgentId, policyByApiKey, decisionLogsByApiKey, users, webhooksByApiKey,
          webhookDeliveries, webhookSuppression, bookkeeping, scored, call, res>>

Undefined == "undefined"
NoNumber == 0 - 1
\* a JSON null in a request body: Number(null) is 0
JsonNull == 0 - 3
FactorScale == 4 * 5

Min(a, b) == IF a < b THEN a ELSE b
Max(a, b) == IF a > b THEN a ELSE b

EmptyMap == [k \in {} |-> 0]

\* { ...a, ...b } of two objects
Spread(a, b) == [k \in (DOMAIN a) \cup (DOMAIN b) |-> IF k \in DOMAIN b THEN b[k] ELSE a[k]]

----------------------------------------------------------------------------
(* config.js *)

SCORE_BASELINE == 50
SCORE_MIN == 0
SCORE_MAX == 100
DECAY_HALF_LIFE_DAYS == 30

----------------------------------------------------------------------------
(* Bounds of the model *)

\* longest event list of one agent scope
MaxEvents == 3
\* oldest event: its age in half-lives
MaxAgePeriods == 2
\* most severe negative events in 30 days a drawn ScoreResult reports
MaxSevere == 2
\* longest run of task events scored in one list
MaxBurst == 5

ApiKeys == {"key_a"}
Agents == {"agent:a"}

----------------------------------------------------------------------------
(* policy.js: the stored policy and its defaults *)

DEFAULT_SOURCE_TYPE_MULTIPLIERS ==
    [verified_integration |-> 20, self_reported |-> 15, unverified |-> 12, manual |-> 20]

defaultPolicy ==
    [minConfidence |-> 0,
     allowedSources |-> {},
     sourceTypeMultipliers |-> DEFAULT_SOURCE_TYPE_MULTIPLIERS,
     eventOverrides |-> EmptyMap,
     requireVerifiedSensitive |-> FALSE]

getPolicy(apiKey) ==
    IF apiKey \notin DOMAIN policyByApiKey
    THEN defaultPolicy
    ELSE LET stored == policyByApiKey[apiKey]
             base == defaultPolicy
         IN  [Spread(base, stored) EXCEPT
                 !.sourceTypeMultipliers =
                     Spread(base.sourceTypeMultipliers,
                            IF "sourceTypeMultipliers" \in DOMAIN stored
                            THEN stored.sourceTypeMultipliers ELSE EmptyMap),
                 !.eventOverrides =
                     IF "eventOverrides" \in DOMAIN stored
                     THEN stored.eventOverrides ELSE EmptyMap]

----------------------------------------------------------------------------
(* config.js: weight tables *)

EVENT_WEIGHTS ==
    [completed_task_on_time |-> 8, payment_success |-> 10, verification_passed |-> 6,
     collaborative_feedback_positive |-> 5, failed_payment |-> 0 - 12,
     unresolved_dispute |-> 0 - 10, security_flag |-> 0 - 20, abuse_report |-> 0 - 25,
     api_key_leak |-> 0 - 35, impersonation_report |-> 0 - 22, spam_report |-> 0 - 15,
     missed_deadline |-> 0 - 9, task_abandoned |-> 0 - 14, subscription_canceled |-> 0 - 6]

BEHAVIOR_EVENT_WEIGHTS ==
    [completed_task_on_time |-> 10, payment_success |-> 3, verification_passed |-> 2,
     collaborative_feedback_positive |-> 4, failed_payment |-> 0 - 2,
     missed_deadline |-> 0 - 10, task_abandoned |-> 0 - 14, unresolved_dispute |-> 0 - 6,
     abuse_report |-> 0 - 8, spam_report |-> 0 - 5, security_flag |-> 0 - 4]

SENSITIVE_EVENT_TYPES ==
    {"payment_success", "failed_payment", "security_flag", "abuse_report",
     "api_key_leak", "impersonation_report", "unresolved_dispute"}

----------------------------------------------------------------------------
(* scoring.js *)

\* Date.now(), in days; the clock stands still while the model runs
NowDay == DECAY_HALF_LIFE_DAYS * MaxAgePeriods

DecayScale == 2 ^ MaxAgePeriods

clamp_NoMin(value, min, max) == Min(max, value)

clamp(value, min, max) == Max(min, Min(max, value))

\* Math.round(clamp(num / den, min, max)) for den > 0
RoundClamped(num, den, min, max) ==
    LET c == clamp(num, min * den, max * den)
    IN  (2 * c + den) \div (2 * den)

\* String(value ?? "").trim().toLowerCase() of a stored, already normalised string
normalised(value) == IF value = Undefined THEN "" ELSE value

daysSince(createdAt, nowDay) ==
    IF createdAt = NoNumber THEN 0 ELSE Max(0, nowDay - createdAt)

decay_NoDecay(daysAgo) == DecayScale

\* in units of 1/DecayScale
decay(daysAgo) == DecayScale \div (2 ^ (daysAgo \div DECAY_HALF_LIFE_DAYS))

weightOf(event) ==
    IF event.eventType \in DOMAIN EVENT_WEIGHTS THEN EVENT_WEIGHTS[event.eventType]
    ELSE IF event.kind = "positive" THEN 5
    ELSE IF event.kind = "negative" THEN 0 - 8
    ELSE 0

\* in twentieths
sourceTrustFactor(event) ==
    LET sourceType == normalised(event.sourceType)
    IN  IF sourceType = "verified_integration" THEN 20
        ELSE IF sourceType = "self_reported" THEN 15
        ELSE IF sourceType = "unverified" THEN 12
        ELSE 20

\* in hundredths
sourceQualityFactor(event) ==
    LET sourceType == normalised(event.sourceType)
    IN  IF sourceType = "verified_integration" THEN 100
        ELSE IF sourceType = "manual" THEN 85
        ELSE IF sourceType = "self_reported" THEN 55
        ELSE IF sourceType = "unverified" THEN 35
        ELSE 70

\* in twentieths; confidence is Number(event.confidence)
confidenceFactor(event) ==
    LET confidence == IF event.confidence = JsonNull THEN 0 ELSE event.confidence
    IN  IF confidence = NoNumber THEN 20 ELSE clamp(confidence, 0, 20)

\* in twentieths
DEFAULT_SOURCE_TYPE_FACTORS ==
    [verified_integration |-> 20, self_reported |-> 15, unverified |-> 12, manual |-> 20]

\* options.policy undefined is the empty object
normalizedPolicy(input) ==
    LET base == [minConfidence |-> 0,
                 allowedSources |-> {},
                 sourceTypeMultipliers |-> DEFAULT_SOURCE_TYPE_FACTORS,
                 eventOverrides |-> EmptyMap,
                 requireVerifiedSensitive |-> FALSE]
    IN  [Spread(base, input) EXCEPT
            !.sourceTypeMultipliers =
                Spread(base.sourceTypeMultipliers,
                       IF "sourceTypeMultipliers" \in DOMAIN input
                       THEN input.sourceTypeMultipliers ELSE EmptyMap),
            !.eventOverrides =
                IF "eventOverrides" \in DOMAIN input THEN input.eventOverrides ELSE EmptyMap,
            !.allowedSources =
                IF "allowedSources" \in DOMAIN input
                THEN input.allowedSources \ {""} ELSE {}]

Excluded(reason) ==
    [included |-> FALSE, reason |-> reason, sourceFactor |-> NoNumber,
     eventMultiplier |-> NoNumber]

evaluatePolicy_ConfidenceFirst(event, policy, confidence) ==
    LET eventType == normalised(event.eventType)
        source == normalised(event.source)
        sourceType == normalised(event.sourceType)
        hasOverride == eventType \in DOMAIN policy.eventOverrides
        isSensitive == eventType \in SENSITIVE_EVENT_TYPES
        verified == sourceType = "verified_integration"
    IN  IF confidence < policy.minConfidence
        THEN Excluded("below_min_confidence")
        ELSE IF /\ hasOverride
                /\ "enabled" \in DOMAIN policy.eventOverrides[eventType]
                /\ policy.eventOverrides[eventType].enabled = FALSE
        THEN Excluded("event_override_disabled")
        ELSE IF policy.requireVerifiedSensitive /\ isSensitive /\ ~verified
        THEN Excluded("unverified_sensitive_event")
        ELSE IF /\ policy.allowedSources # {}
                /\ (source = "" \/ source \notin policy.allowedSources)
        THEN Excluded("source_not_allowed")
        ELSE [included |-> TRUE, reason |-> "null",
              sourceFactor |->
                  IF sourceType \in DOMAIN policy.sourceTypeMultipliers
                  THEN clamp(policy.sourceTypeMultipliers[sourceType], 0, 40)
                  ELSE sourceTrustFactor(event),
              eventMultiplier |->
                  IF hasOverride /\ "multiplier" \in DOMAIN policy.eventOverrides[eventType]
                  THEN clamp(policy.eventOverrides[eventType].multiplier, 0, 60)
                  ELSE 20]

evaluatePolicy_UnknownReason(event, policy, confidence) ==
    LET r == evaluatePolicy_ConfidenceFirst(event, policy, confidence)
    IN  IF r.reason = "source_not_allowed"
        THEN Excluded("source_disallowed")
        ELSE r

\* confidence is confidenceFactor(event); factors in twentieths
evaluatePolicy(event, policy, confidence) ==
    LET eventType == normalised(event.eventType)
        source == normalised(event.source)
        sourceType == normalised(event.sourceType)
        hasOverride == eventType \in DOMAIN policy.eventOverrides
        isSensitive == eventType \in SENSITIVE_EVENT_TYPES
        verified == sourceType = "verified_integration"
    IN  IF /\ hasOverride
           /\ "enabled" \in DOMAIN policy.eventOverrides[eventType]
           /\ policy.eventOverrides[eventType].enabled = FALSE
        THEN Excluded("event_override_disabled")
        ELSE IF policy.requireVerifiedSensitive /\ isSensitive /\ ~verified
        THEN Excluded("unverified_sensitive_event")
        ELSE IF confidence < policy.minConfidence
        THEN Excluded("below_min_confidence")
        ELSE IF /\ policy.allowedSources # {}
                /\ (source = "" \/ source \notin policy.allowedSources)
        THEN Excluded("source_not_allowed")
        ELSE [included |-> TRUE, reason |-> "null",
              sourceFactor |->
                  IF sourceType \in DOMAIN policy.sourceTypeMultipliers
                  THEN clamp(policy.sourceTypeMultipliers[sourceType], 0, 40)
                  ELSE sourceTrustFactor(event),
              eventMultiplier |->
                  IF hasOverride /\ "multiplier" \in DOMAIN policy.eventOverrides[eventType]
                  THEN clamp(policy.eventOverrides[eventType].multiplier, 0, 60)
                  ELSE 20]

levelFor(score) ==
    IF score >= 90 THEN "Very High"
    ELSE IF score >= 75 THEN "High"
    ELSE IF score >= 55 THEN "Medium"
    ELSE IF score >= 35 THEN "Low"
    ELSE "Very Low"

signalQualityLevel(score) ==
    IF score >= 80 THEN "High" ELSE IF score >= 55 THEN "Medium" ELSE "Low"

behaviorLevelFor(score) ==
    IF score >= 85 THEN "Excellent"
    ELSE IF score >= 70 THEN "Strong"
    ELSE IF score >= 50 THEN "Stable"
    ELSE IF score >= 35 THEN "At Risk"
    ELSE "Poor"

behaviorWeightOf(event) ==
    IF event.eventType \in DOMAIN BEHAVIOR_EVENT_WEIGHTS
    THEN BEHAVIOR_EVENT_WEIGHTS[event.eventType]
    ELSE IF event.kind = "positive" THEN 4
    ELSE IF event.kind = "negative" THEN 0 - 6
    ELSE 0

\* denominators of the accumulated sums
TrustDen == DecayScale * FactorScale * FactorScale * FactorScale
BehaviorDen == DecayScale * FactorScale * FactorScale

\* one pass of the loop of calculateBehaviorScore; base in units of 1/BehaviorDen
behaviorStep(acc, event, nowDay) ==
    LET ageDays == daysSince(event.createdAt, nowDay)
        confidence == confidenceFactor(event)
        sourceFactor == sourceTrustFactor(event)
        contribution == behaviorWeightOf(event) * decay(ageDays) * confidence * sourceFactor
        severeTypes == {"api_key_leak", "security_flag", "abuse_report",
                        "impersonation_report"}
        recent == ageDays <= 30
        inc(hit) == IF recent /\ hit THEN 1 ELSE 0
    IN  [base |-> acc.base + contribution,
         onTime30d |-> acc.onTime30d + inc(event.eventType = "completed_task_on_time"),
         missed30d |-> acc.missed30d + inc(event.eventType = "missed_deadline"),
         abandoned30d |-> acc.abandoned30d + inc(event.eventType = "task_abandoned"),
         severeRisk30d |->
             acc.severeRisk30d + inc(normalised(event.eventType) \in severeTypes)]

RECURSIVE behaviorLoop(_, _, _)
behaviorLoop(acc, events, nowDay) ==
    IF events = <<>> THEN acc
    ELSE behaviorLoop(behaviorStep(acc, Head(events), nowDay), Tail(events), nowDay)

calculateBehaviorScore(events, nowDay) ==
    LET \* the behavior result, given the sums of the loop and the score
        result(acc, trustPenalty, score, rated) ==
        [score |-> score,
         level |-> behaviorLevelFor(score),
         trustInfluencePenalty |-> trustPenalty,
         breakdown |-> [onTime30d |-> acc.onTime30d,
                        missedDeadline30d |-> acc.missed30d,
                        abandoned30d |-> acc.abandoned30d,
                        severeRisk30d |-> acc.severeRisk30d,
                        onTimeRate30d |->
                            IF rated > 0
                            THEN (2 * 100 * acc.onTime30d + rated) \div (2 * rated)
                            ELSE NoNumber]]
        penalised(acc, trustPenalty) ==
            result(acc, trustPenalty,
                   RoundClamped(acc.base - trustPenalty * BehaviorDen, BehaviorDen,
                                SCORE_MIN, SCORE_MAX),
                   acc.onTime30d + acc.missed30d)
        summed(acc) == penalised(acc, Min(12, acc.severeRisk30d * 4))
    IN  summed(behaviorLoop([base |-> 60 * BehaviorDen, onTime30d |-> 0, missed30d |-> 0,
                             abandoned30d |-> 0, severeRisk30d |-> 0],
                            events, nowDay))

contributionOf_IgnoresPolicy(event, policyEffect, nowDay) ==
    LET sourceFactor == IF policyEffect.included THEN policyEffect.sourceFactor
                        ELSE sourceTrustFactor(event)
        eventMultiplier == IF policyEffect.included THEN policyEffect.eventMultiplier
                           ELSE 20
    IN  weightOf(event) * decay(daysSince(event.createdAt, nowDay)) * sourceFactor
            * confidenceFactor(event) * eventMultiplier

\* what one event adds to scoreValue, in units of 1/TrustDen
contributionOf(event, policyEffect, nowDay) ==
    IF policyEffect.included
    THEN weightOf(event) * decay(daysSince(event.createdAt, nowDay))
             * policyEffect.sourceFactor * confidenceFactor(event)
             * policyEffect.eventMultiplier
    ELSE 0

inLast30Days_IncludedOnly(ageDays, policyEffect) ==
    ageDays <= 30 /\ policyEffect.included

\* if (ageDays <= 30): the guard of the 30-day counters, outside the branch
\* on policyEffect.included
inLast30Days(ageDays, policyEffect) ==
    ageDays <= 30

\* one pass of the loop of scoreAgent
scoreStep(acc, event, policy, nowDay) ==
    LET ageDays == daysSince(event.createdAt, nowDay)
        decayFactor == decay(ageDays)
        confidence == confidenceFactor(event)
        \* in units of 1/(DecayScale * FactorScale): 0.05 is DecayScale
        qualityWeight == Max(DecayScale, decayFactor * confidence)
        verified == normalised(event.sourceType) = "verified_integration"
        inc(hit) == IF hit THEN 1 ELSE 0
        \* the sums and counters after the event, given what evaluatePolicy
        \* answered for it
        counted(policyEffect, included, reason, recent) ==
        [scoreValue |-> acc.scoreValue + contributionOf(event, policyEffect, nowDay),
         included |-> acc.included + inc(included),
         qualitySampleSize |-> acc.qualitySampleSize + inc(included),
         qualityVerifiedEvents |-> acc.qualityVerifiedEvents + inc(included /\ verified),
         qualityDenominator |->
             acc.qualityDenominator + (IF included THEN qualityWeight ELSE 0),
         qualityNumerator |->
             acc.qualityNumerator
                 + (IF included THEN qualityWeight * sourceQualityFactor(event) ELSE 0),
         excludedByConfidence |->
             acc.excludedByConfidence + inc(~included /\ reason = "below_min_confidence"),
         excludedBySource |->
             acc.excludedBySource + inc(~included /\ reason = "source_not_allowed"),
         excludedByEventOverride |->
             acc.excludedByEventOverride
                 + inc(~included /\ reason = "event_override_disabled"),
         excludedByVerification |->
             acc.excludedByVerification
                 + inc(~included /\ reason = "unverified_sensitive_event"),
         positive30d |-> acc.positive30d + inc(recent /\ event.kind = "positive"),
         neutral30d |-> acc.neutral30d + inc(recent /\ event.kind = "neutral"),
         negative30d |-> acc.negative30d + inc(recent /\ event.kind = "negative"),
         severeNegative30d |->
             acc.severeNegative30d
                 + inc(/\ recent
                       /\ normalised(event.eventType) \in SENSITIVE_EVENT_TYPES
                       /\ event.kind = "negative")]
        answered(policyEffect) ==
            counted(policyEffect, policyEffect.included, policyEffect.reason,
                    inLast30Days(ageDays, policyEffect))
    IN  answered(evaluatePolicy(event, policy, confidence))

RECURSIVE scoreLoop(_, _, _, _)
scoreLoop(acc, events, policy, nowDay) ==
    IF events = <<>> THEN acc
    ELSE scoreLoop(scoreStep(acc, Head(events), policy, nowDay), Tail(events),
                   policy, nowDay)

finalScoreOf_AddsInfluence(trustScore, behaviorInfluence) ==
    clamp(trustScore + behaviorInfluence, SCORE_MIN, SCORE_MAX)

\* const score = trustScore: the behaviour influence is not added
finalScoreOf(trustScore, behaviorInfluence) ==
    trustScore

behaviorEventsOf_PolicyFiltered(events, policy) ==
    SelectSeq(events, LAMBDA e : evaluatePolicy(e, policy, confidenceFactor(e)).included)

\* the events handed to calculateBehaviorScore: all of them, whatever the policy
behaviorEventsOf(events, policy) ==
    events

\* Array.prototype.sort applied to the passed array itself: newest first, stable
eventsAfterScore_SortedInPlace(events) ==
    LET n == Len(events)
        rank(i) == 1 + Cardinality({j \in 1..n :
                          \/ events[j].createdAt > events[i].createdAt
                          \/ events[j].createdAt = events[i].createdAt /\ j < i})
    IN  [p \in 1..n |-> events[CHOOSE i \in 1..n : rank(i) = p]]

\* the passed array once scoreAgent has returned: the loops only read it and
\* the history is sorted on a copy, [...events].sort(...)
eventsAfterScore(events) ==
    events

\* scoreAgent(agentId, events, { policy }); options.policy undefined is EmptyMap
scoreAgent(agentId, events, optionsPolicy) ==
    LET policy == normalizedPolicy(optionsPolicy)
        nowDay == NowDay
        \* the ScoreResult, given the sums of the loop, the behavior score
        \* and the numbers derived from them
        result(acc, behavior, trustScore, behaviorInfluence, score,
               signalQualityScore) ==
        [agentId |-> agentId,
         score |-> score,
         level |-> levelFor(score),
         signalQuality |->
             [score |-> signalQualityScore,
              level |-> signalQualityLevel(signalQualityScore),
              sampleSize |-> acc.qualitySampleSize,
              verifiedPercent |->
                  IF acc.qualitySampleSize > 0
                  THEN (2 * 100 * acc.qualityVerifiedEvents + acc.qualitySampleSize)
                           \div (2 * acc.qualitySampleSize)
                  ELSE 0],
         breakdown |->
             [positive30d |-> acc.positive30d,
              neutral30d |-> acc.neutral30d,
              negative30d |-> acc.negative30d,
              severeNegative30d |-> acc.severeNegative30d,
              lifetimeEvents |-> Len(events),
              policy |->
                  [excludedByConfidence |-> acc.excludedByConfidence,
                   excludedBySource |-> acc.excludedBySource,
                   excludedByEventOverride |-> acc.excludedByEventOverride,
                   excludedByVerification |-> acc.excludedByVerification,
                   included |-> acc.included]],
         behavior |-> Spread(behavior, [trustInfluence |-> behaviorInfluence]),
         trust |-> [baseScore |-> trustScore,
                    behaviorInfluence |-> behaviorInfluence,
                    finalScore |-> score]]
        derived(acc, behavior, trustScore, behaviorInfluence) ==
            result(acc, behavior, trustScore, behaviorInfluence,
                   finalScoreOf(trustScore, behaviorInfluence),
                   IF acc.qualityDenominator > 0
                   THEN RoundClamped(acc.qualityNumerator, acc.qualityDenominator, 0, 100)
                   ELSE 0)
        summed(acc, behavior) ==
            derived(acc, behavior,
                    RoundClamped(acc.scoreValue, TrustDen, SCORE_MIN, SCORE_MAX),
                    (IF behavior.score <= 35 THEN 0 - 6
                     ELSE IF behavior.score <= 50 THEN 0 - 3
                     ELSE IF behavior.score >= 85 THEN 2
                     ELSE 0)
                    + (IF behavior.breakdown.abandoned30d >= 2 THEN 0 - 4 ELSE 0))
    IN  summed(scoreLoop([scoreValue |-> SCORE_BASELINE * TrustDen,
                          included |-> 0, qualitySampleSize |-> 0,
                          qualityVerifiedEvents |-> 0, qualityDenominator |-> 0,
                          qualityNumerator |-> 0, excludedByConfidence |-> 0,
                          excludedBySource |-> 0, excludedByEventOverride |-> 0,
                          excludedByVerification |-> 0, positive30d |-> 0,
                          neutral30d |-> 0, negative30d |-> 0, severeNegative30d |-> 0],
                         events, policy, nowDay),
               calculateBehaviorScore(behaviorEventsOf(events, policy), nowDay))

----------------------------------------------------------------------------
(* clawcredit.js: the preflight decision *)

toNumber(value, fallback) == IF value = NoNumber THEN fallback ELSE value

riskFromPayload_NoCap(payload) ==
    LET amountUsd == toNumber(payload.amountUsd, 0)
    IN  (IF amountUsd >= 1000 THEN 10 ELSE 0)
      + (IF amountUsd >= 5000 THEN 15 ELSE 0)
      + (IF amountUsd >= 20000 THEN 20 ELSE 0)
      + (IF payload.newPayee = TRUE THEN 15 ELSE 0)
      + (IF payload.firstTimeCounterparty = TRUE THEN 10 ELSE 0)
      + (IF payload.highPrivilegeAction = TRUE THEN 20 ELSE 0)
      + (IF payload.exposesApiKeys = TRUE THEN 25 ELSE 0)

riskFromPayload(payload) ==
    LET amountUsd == toNumber(payload.amountUsd, 0)
        risk == (IF amountUsd >= 1000 THEN 10 ELSE 0)
              + (IF amountUsd >= 5000 THEN 15 ELSE 0)
              + (IF amountUsd >= 20000 THEN 20 ELSE 0)
              + (IF payload.newPayee = TRUE THEN 15 ELSE 0)
              + (IF payload.firstTimeCounterparty = TRUE THEN 10 ELSE 0)
              + (IF payload.highPrivilegeAction = TRUE THEN 20 ELSE 0)
              + (IF payload.exposesApiKeys = TRUE THEN 25 ELSE 0)
    IN  Min(risk, 60)

\* let behaviorPenalty / behaviorCredit and their if-chain
behaviorPenaltyOf(behaviorScore) ==
    IF behaviorScore < 40 THEN 12
    ELSE IF behaviorScore < 55 THEN 6
    ELSE 0

behaviorCreditOf(behaviorScore) ==
    IF behaviorScore < 40 THEN 0
    ELSE IF behaviorScore < 55 THEN 0
    ELSE IF behaviorScore >= 85 THEN 3
    ELSE 0

adjustedScoreOf(trustScore, riskPenalty, behaviorPenalty, behaviorCredit) ==
    Max(0, trustScore - riskPenalty - behaviorPenalty + behaviorCredit)

decisionOf_NoFloor(trustScore, severeNegative30d, riskPenalty, adjustedScore) ==
    IF severeNegative30d >= 2 /\ riskPenalty >= 20 THEN "block"
    ELSE IF adjustedScore < 35 THEN "block"
    ELSE IF adjustedScore < 55 THEN "review"
    ELSE "allow"

decisionOf_NoOverride(trustScore, severeNegative30d, riskPenalty, adjustedScore) ==
    IF trustScore < 35 THEN "block"
    ELSE IF adjustedScore < 35 THEN "block"
    ELSE IF adjustedScore < 55 THEN "review"
    ELSE "allow"

decisionOf_ReviewBelow50(trustScore, severeNegative30d, riskPenalty, adjustedScore) ==
    IF trustScore < 35 THEN "block"
    ELSE IF severeNegative30d >= 2 /\ riskPenalty >= 20 THEN "block"
    ELSE IF adjustedScore < 35 THEN "block"
    ELSE IF adjustedScore < 50 THEN "review"
    ELSE "allow"

decisionOf_OverrideReviews(trustScore, severeNegative30d, riskPenalty, adjustedScore) ==
    IF trustScore < 35 THEN "block"
    ELSE IF severeNegative30d >= 2 /\ riskPenalty >= 20 THEN "review"
    ELSE IF adjustedScore < 35 THEN "block"
    ELSE IF adjustedScore < 55 THEN "review"
    ELSE "allow"

\* the if-chain that sets decision (and reason) in the behaviour-aware handler
decisionOf(trustScore, severeNegative30d, riskPenalty, adjustedScore) ==
    IF trustScore < 35 THEN "block"
    ELSE IF severeNegative30d >= 2 /\ riskPenalty >= 20 THEN "block"
    ELSE IF adjustedScore < 35 THEN "block"
    ELSE IF adjustedScore < 55 THEN "review"
    ELSE "allow"

normalizeAgentId(agentId) == agentId

\* clawCreditPreflight as it scores through scoreForAccountAgent and weighs
\* the behavior score; trust is the ScoreResult of scoreForAccountAgent.
\* The value is the response and the row handed to logDecision.
clawCreditPreflight(account, payload, trust) ==
    LET agentId == normalizeAgentId(payload.agentId)
        riskPenalty == riskFromPayload(payload)
        behaviorPenalty == behaviorPenaltyOf(trust.behavior.score)
        behaviorCredit == behaviorCreditOf(trust.behavior.score)
        adjustedScore ==
            adjustedScoreOf(trust.score, riskPenalty, behaviorPenalty, behaviorCredit)
        decision ==
            decisionOf(trust.score, trust.breakdown.severeNegative30d,
                       riskPenalty, adjustedScore)
    IN  IF agentId = ""
        THEN [status |-> 400, logged |-> FALSE]
        ELSE [status |-> 200,
              logged |-> TRUE,
              body |-> [decision |-> decision,
                        trust |-> [agentId |-> agentId, score |-> trust.score],
                        behavior |-> [score |-> trust.behavior.score],
                        policy |-> [adjustedScore |-> adjustedScore,
                                    riskPenalty |-> riskPenalty,
                                    behaviorPenalty |-> behaviorPenalty,
                                    behaviorCredit |-> behaviorCredit]],
              log |-> [action |-> "clawcredit_preflight",
                       agentId |-> agentId,
                       outcome |-> decision,
                       score |-> adjustedScore,
                       metadata |-> [trustScore |-> trust.score,
                                     behaviorScore |-> trust.behavior.score,
                                     riskPenalty |-> riskPenalty,
                                     behaviorPenalty |-> behaviorPenalty,
                                     behaviorCredit |-> behaviorCredit]]]

signalQualityGate_Unblocks(decision, minSignalQuality, signalQualityScore) ==
    IF minSignalQuality > 0 /\ signalQualityScore < minSignalQuality
    THEN "review"
    ELSE decision

\* the post-check on signal quality of the policy-aware handler
signalQualityGate(decision, minSignalQuality, signalQualityScore) ==
    IF minSignalQuality > 0 /\ signalQualityScore < minSignalQuality /\ decision # "block"
    THEN "review"
    ELSE decision

\* clawCreditPreflight as it passes the tenant policy to scoreAgent and
\* checks policy.minSignalQuality; trust is the ScoreResult of scoreAgent,
\* policy is getPolicy(account.apiKey).
clawCreditPreflightGated(account, payload, policy, trust) ==
    LET agentId == normalizeAgentId(payload.agentId)
        riskPenalty == riskFromPayload(payload)
        adjustedScore == Max(0, trust.score - riskPenalty)
        minSignalQuality ==
            IF "minSignalQuality" \in DOMAIN policy THEN policy.minSignalQuality ELSE 0
        signalQualityScore == trust.signalQuality.score
        ruled == IF adjustedScore < 35 THEN "block"
                 ELSE IF adjustedScore < 55 THEN "review"
                 ELSE "allow"
        decision == signalQualityGate(ruled, minSignalQuality, signalQualityScore)
    IN  IF agentId = ""
        THEN [status |-> 400, logged |-> FALSE]
        ELSE [status |-> 200,
              logged |-> TRUE,
              body |-> [decision |-> decision,
                        trust |-> [agentId |-> agentId, score |-> trust.score,
                                   signalQuality |-> trust.signalQuality],
                        policy |-> [adjustedScore |-> adjustedScore,
                                    riskPenalty |-> riskPenalty,
                                    minSignalQuality |-> minSignalQuality]],
              log |-> [action |-> "clawcredit_preflight",
                       agentId |-> agentId,
                       outcome |-> decision,
                       score |-> adjustedScore,
                       metadata |-> [trustScore |-> trust.score]]]

\* store.appendDecisionLog: newest row first, at most 5000 rows kept
appendDecisionLog(logs, apiKey, row) ==
    LET existing == IF apiKey \in DOMAIN logs THEN logs[apiKey] ELSE <<>>
        grown == <<row>> \o existing
    IN  Spread(logs, [k \in {apiKey} |-> SubSeq(grown, 1, Min(Len(grown), 5000))])

----------------------------------------------------------------------------
(* The preflight decision over the score results it can be handed.         *)
(* The state before a call: scored is what the scoring engine returns for  *)
(* the agent of the call, policyByApiKey the stored tenant policy, call    *)
(* the request; res.status = 0 while the call is unanswered.               *)

Pending == [status |-> 0]

TrustScoreInputs == SCORE_MIN..SCORE_MAX
BehaviorScoreInputs == {39, 40, 54, 55, 84, 85}
SignalQualityInputs == {50, 90}
MinSignalQualityInputs == {NoNumber, 90}
AmountUsdInputs == {NoNumber, 999, 1000, 5000, 20000, 25000}

ScoreResultInputs(behaviorScores, severes, qualities) ==
    { [score |-> s,
       behavior |-> [score |-> b],
       breakdown |-> [severeNegative30d |-> n],
       signalQuality |-> [score |-> q]] :
      s \in TrustScoreInputs, b \in behaviorScores, n \in severes, q \in qualities }

PreflightPayloads ==
    { [agentId |-> "agent:a", amountUsd |-> a, newPayee |-> np,
       firstTimeCounterparty |-> ft, highPrivilegeAction |-> hp, exposesApiKeys |-> ak] :
      a \in AmountUsdInputs, np \in BOOLEAN, ft \in BOOLEAN, hp \in BOOLEAN, ak \in BOOLEAN }
    \cup
    { [agentId |-> "", amountUsd |-> NoNumber, newPayee |-> FALSE,
       firstTimeCounterparty |-> FALSE, highPrivilegeAction |-> FALSE,
       exposesApiKeys |-> FALSE] }

\* a stored policy that carries minSignalQuality m (none when m is NoNumber)
StoredPolicyWith(m) ==
    IF m = NoNumber
    THEN EmptyMap
    ELSE [k \in ApiKeys |-> Spread(defaultPolicy, [minSignalQuality |-> m])]

InitPreflight ==
    /\ usageByMonthAndApiKey = EmptyMap
    /\ processedInboundEvents = {}
    /\ inboundSecretsByApiKey = EmptyMap
    /\ pendingDeliveries = <<>>
    /\ users = [k \in ApiKeys |-> "starter"]
    /\ webhooksByApiKey = EmptyMap
    /\ webhookDeliveries = EmptyMap
    /\ webhookSuppression = {}
    /\ eventsByAgentId = EmptyMap
    /\ decisionLogsByApiKey = EmptyMap
    /\ res = Pending
    /\ \/ /\ scored \in ScoreResultInputs(BehaviorScoreInputs, 0..MaxSevere, {90})
          /\ policyByApiKey = EmptyMap
          /\ call \in { [op |-> "clawCreditPreflight", account |-> k, payload |-> p] :
                        k \in ApiKeys, p \in PreflightPayloads }
       \/ /\ scored \in ScoreResultInputs({60}, {0}, SignalQualityInputs)
          /\ \E m \in MinSignalQualityInputs : policyByApiKey = StoredPolicyWith(m)
          /\ call \in { [op |-> "clawCreditPreflightGated", account |-> k, payload |-> p] :
                        k \in ApiKeys, p \in PreflightPayloads }

Answer(r) ==
    /\ res' = [f \in (DOMAIN r) \ {"log", "logged"} |-> r[f]]
    /\ decisionLogsByApiKey' =
           IF r.logged
           THEN appendDecisionLog(decisionLogsByApiKey, call.account, r.log)
           ELSE decisionLogsByApiKey

PreflightDecide ==
    /\ res = Pending
    /\ call.op = "clawCreditPreflight"
    /\ Answer(clawCreditPreflight(call.account, call.payload, scored))
    /\ UNCHANGED <<bookkeeping,
                   users, webhooksByApiKey, webhookDeliveries, webhookSuppression,
                   eventsByAgentId, policyByApiKey, scored, call>>

PreflightDecideGated ==
    /\ res = Pending
    /\ call.op = "clawCreditPreflightGated"
    /\ Answer(clawCreditPreflightGated(call.account, call.payload,
                                       getPolicy(call.account), scored))
    /\ UNCHANGED <<bookkeeping,
                   users, webhooksByApiKey, webhookDeliveries, webhookSuppression,
                   eventsByAgentId, policyByApiKey, scored, call>>

NextPreflight == PreflightDecide \/ PreflightDecideGated

SpecPreflight == InitPreflight /\ [][NextPreflight]_vars

----------------------------------------------------------------------------
(* Claims about the preflight decision *)

Answered == res.status = 200
AnsweredBy(op) == call.op = op /\ res.status = 200
LoggedRow == decisionLogsByApiKey[call.account][1]

\* C1: a raw trust score below 35 is always answered with block, whatever
\* the action context, the behavior score and the tenant policy are.
C1_HardFloorBlocks ==
    (Answered /\ scored.score < 35) => res.body.decision = "block"

\* the behavior credit lifts the decision score to 35 or more, no risk: still block
C1_Witness ==
    /\ AnsweredBy("clawCreditPreflight")
    /\ scored.score = 34
    /\ scored.behavior.score >= 85
    /\ res.body.policy.riskPenalty = 0
    /\ res.body.policy.adjustedScore = 37
    /\ res.body.decision = "block"

C3_AdjustedScoreBands ==
    (/\ AnsweredBy("clawCreditPreflight")
     /\ scored.score >= 35
     /\ ~(scored.breakdown.severeNegative30d >= 2 /\ res.body.policy.riskPenalty >= 20))
    => LET adj == res.body.policy.adjustedScore
           d == res.body.decision
       IN  /\ d \in {"block", "review", "allow"}
           /\ (d = "block") <=> (adj < 35)
           /\ (d = "review") <=> (35 <= adj /\ adj < 55)
           /\ (d = "allow") <=> (adj >= 55)

C3_Witness ==
    /\ AnsweredBy("clawCreditPreflight")
    /\ scored.score >= 35
    /\ scored.breakdown.severeNegative30d = 0
    /\ res.body.policy.adjustedScore = 54
    /\ res.body.decision = "review"

C4_WitnessBlock ==
    /\ AnsweredBy("clawCreditPreflightGated")
    /\ res.body.policy.minSignalQuality = 90
    /\ scored.signalQuality.score < 90
    /\ res.body.policy.adjustedScore < 35
    /\ res.body.decision = "block"

\* C5: adjustedScore is clamp(trust.score - riskPenalty - behaviorPenalty +
\* behaviorCredit, 0, 100), so the adjustedScore returned and logged by
\* preflight lies in 0..100.
C5_AdjustedScoreInRange ==
    AnsweredBy("clawCreditPreflight")
    => LET p == res.body.policy
           b == scored.behavior.score
           penalty == IF b < 40 THEN 12 ELSE IF b < 55 THEN 6 ELSE 0
           credit == IF b >= 85 THEN 3 ELSE 0
           raw == scored.score - p.riskPenalty - penalty + credit
       IN  /\ p.behaviorPenalty = penalty
           /\ p.behaviorCredit = credit
           /\ p.adjustedScore = Max(0, Min(100, raw))
           /\ p.adjustedScore \in 0..100
           /\ LoggedRow.score \in 0..100

RiskSum(payload) ==
    LET a == payload.amountUsd
    IN  (IF a # NoNumber /\ a >= 1000 THEN 10 ELSE 0)
      + (IF a # NoNumber /\ a >= 5000 THEN 15 ELSE 0)
      + (IF a # NoNumber /\ a >= 20000 THEN 20 ELSE 0)
      + (IF payload.newPayee THEN 15 ELSE 0)
      + (IF payload.firstTimeCounterparty THEN 10 ELSE 0)
      + (IF payload.highPrivilegeAction THEN 20 ELSE 0)
      + (IF payload.exposesApiKeys THEN 25 ELSE 0)

ScenarioF ==
    /\ call.payload.amountUsd = 25000
    /\ call.payload.newPayee
    /\ call.payload.firstTimeCounterparty
    /\ scored.score = 70

RiskPenaltyAsStated ==
    /\ res.body.policy.riskPenalty = Min(60, RiskSum(call.payload))
    /\ res.body.policy.riskPenalty \in 0..60

----------------------------------------------------------------------------
(* policy.js: changing the stored policy *)

\* a thrown Error
Thrown == [ok |-> FALSE]

\* A payload is a record of the fields the JSON body has.  A number that is
\* not finite is NoNumber; a value of the wrong JSON type is named by its path
\* in payload.malformed (<<"payload">> when the body itself is not an object).
malformedIn(payload, path) ==
    "malformed" \in DOMAIN payload /\ path \in payload.malformed

Normalized(value) == [error |-> "", value |-> value]
Invalid(message) == [error |-> message, value |-> Undefined]

normalizeAllowedSources(payload) ==
    IF malformedIn(payload, <<"allowedSources">>)
    THEN Invalid("allowedSources must be an array of strings.")
    ELSE IF "allowedSources" \notin DOMAIN payload THEN Normalized(Undefined)
    ELSE Normalized(payload.allowedSources \ {""})

normalizeSourceTypeMultipliers(payload) ==
    IF malformedIn(payload, <<"sourceTypeMultipliers">>)
    THEN Invalid("sourceTypeMultipliers must be an object.")
    ELSE IF "sourceTypeMultipliers" \notin DOMAIN payload THEN Normalized(Undefined)
    ELSE LET input == payload.sourceTypeMultipliers
             keys == (DOMAIN input) \ {""}
         IN  IF \E k \in keys : input[k] = NoNumber
             THEN Invalid("sourceTypeMultipliers.key must be a number.")
             ELSE Normalized([k \in keys |-> clamp(input[k], 0, 2 * FactorScale)])

normalizeEventOverrides(payload) ==
    IF malformedIn(payload, <<"eventOverrides">>)
    THEN Invalid("eventOverrides must be an object.")
    ELSE IF "eventOverrides" \notin DOMAIN payload THEN Normalized(Undefined)
    ELSE LET input == payload.eventOverrides
             keys == (DOMAIN input) \ {""}
             normalizedOverride(o) ==
                 [f \in (DOMAIN o) \cap {"enabled", "multiplier"} |->
                     IF f = "multiplier" THEN clamp(o.multiplier, 0, 3 * FactorScale)
                     ELSE o[f]]
         IN  IF \E k \in keys : malformedIn(payload, <<"eventOverrides", k>>)
             THEN Invalid("eventOverrides.key must be an object.")
             ELSE IF \E k \in keys : malformedIn(payload, <<"eventOverrides", k, "enabled">>)
             THEN Invalid("eventOverrides.key.enabled must be boolean.")
             ELSE IF \E k \in keys : "multiplier" \in DOMAIN input[k]
                                     /\ input[k].multiplier = NoNumber
             THEN Invalid("eventOverrides.key.multiplier must be a number.")
             ELSE Normalized([k \in keys |-> normalizedOverride(input[k])])

mergeMap_Replace(currentMap, incoming) == incoming

\* { ...current.map, ...incoming }
mergeMap(currentMap, incoming) == Spread(currentMap, incoming)

storeOnThrow_Partial(apiKey, partial) ==
    Spread(policyByApiKey, [k \in {apiKey} |-> partial])

\* a throw leaves setPolicy before store.policyByApiKey.set: the local `next`
\* built so far is dropped
storeOnThrow(apiKey, partial) == policyByApiKey

\* setPolicy runs five steps in source order, one per field of the payload;
\* each either throws or, when the payload has the field, assigns it in the
\* local `next`.  failedAt is the step of the first throw (6 when none), and
\* builtBy(n) is `next` after the first n steps
setPolicy(apiKey, payload) ==
    LET current == getPolicy(apiKey)
        field == <<"minConfidence", "allowedSources", "sourceTypeMultipliers",
                   "eventOverrides", "requireVerifiedSensitive">>
        errorAt(i) ==
            CASE i = 1 -> IF "minConfidence" \in DOMAIN payload
                             /\ payload.minConfidence = NoNumber
                          THEN "minConfidence must be a number between 0 and 1."
                          ELSE ""
              [] i = 2 -> normalizeAllowedSources(payload).error
              [] i = 3 -> normalizeSourceTypeMultipliers(payload).error
              [] i = 4 -> normalizeEventOverrides(payload).error
              [] i = 5 -> IF malformedIn(payload, <<"requireVerifiedSensitive">>)
                          THEN "requireVerifiedSensitive must be boolean."
                          ELSE ""
        assigned(f) ==
            CASE f = "minConfidence" -> clamp(payload.minConfidence, 0, FactorScale)
              [] f = "allowedSources" -> normalizeAllowedSources(payload).value
              [] f = "sourceTypeMultipliers" ->
                     mergeMap(current.sourceTypeMultipliers,
                              normalizeSourceTypeMultipliers(payload).value)
              [] f = "eventOverrides" ->
                     mergeMap(current.eventOverrides,
                              normalizeEventOverrides(payload).value)
              [] f = "requireVerifiedSensitive" -> payload.requireVerifiedSensitive
        failedAt == CHOOSE i \in 1..6 :
                        /\ i = 6 \/ errorAt(i) # ""
                        /\ \A j \in 1..(i - 1) : errorAt(j) = ""
        builtBy(n) ==
            Spread(current,
                   [f \in {field[i] : i \in 1..n} \cap DOMAIN payload |-> assigned(f)])
    IN  IF malformedIn(payload, <<"payload">>)
        THEN Spread(Thrown, [error |-> "Policy payload must be a JSON object.",
                             policyByApiKey |-> policyByApiKey])
        ELSE \* one of the two branches below, by the step of the first throw
             LET thrownAt == failedAt
             IN  IF thrownAt <= 5
                 THEN Spread(Thrown,
                             [error |-> errorAt(thrownAt),
                              policyByApiKey |->
                                  storeOnThrow(apiKey, builtBy(thrownAt - 1))])
                 ELSE LET next == Spread(builtBy(5), [updatedAt |-> NowDay])
                      IN  [ok |-> TRUE,
                           next |-> next,
                           policyByApiKey |->
                               Spread(policyByApiKey, [k \in {apiKey} |-> next])]

resetPolicy(apiKey) ==
    [policy |-> defaultPolicy,
     policyByApiKey |-> [k \in (DOMAIN policyByApiKey) \ {apiKey} |-> policyByApiKey[k]]]

\* multipliers in twentieths: 0.55, 0.35, 0.75, 0.2, 0.4
POLICY_PRESETS ==
    [open |->
        [minConfidence |-> 0,
         allowedSources |-> {},
         sourceTypeMultipliers |->
             [verified_integration |-> 20, self_reported |-> 15, unverified |-> 12,
              manual |-> 20],
         eventOverrides |-> EmptyMap,
         requireVerifiedSensitive |-> FALSE,
         description |-> "Accept broad signals."],
     balanced |->
        [minConfidence |-> 7,
         allowedSources |-> {},
         sourceTypeMultipliers |->
             [verified_integration |-> 20, self_reported |-> 11, unverified |-> 7,
              manual |-> 15],
         eventOverrides |-> EmptyMap,
         requireVerifiedSensitive |-> TRUE,
         description |-> "Default production posture."],
     strict |->
        [minConfidence |-> 15,
         allowedSources |-> {},
         sourceTypeMultipliers |->
             [verified_integration |-> 20, self_reported |-> 4, unverified |-> 0,
              manual |-> 8],
         eventOverrides |-> EmptyMap,
         requireVerifiedSensitive |-> TRUE,
         description |-> "High-assurance mode."]]

\* null for a name that is not a preset
clonePreset(name) ==
    IF name \notin DOMAIN POLICY_PRESETS THEN Undefined
    ELSE LET preset == POLICY_PRESETS[name]
         IN  [minConfidence |-> preset.minConfidence,
              allowedSources |-> preset.allowedSources,
              sourceTypeMultipliers |-> preset.sourceTypeMultipliers,
              eventOverrides |-> preset.eventOverrides,
              requireVerifiedSensitive |-> preset.requireVerifiedSensitive,
              preset |-> name,
              presetDescription |-> preset.description]

presetOnto_Merged(stored, preset) ==
    [Spread(stored, preset) EXCEPT
        !.allowedSources = stored.allowedSources \cup preset.allowedSources,
        !.sourceTypeMultipliers =
            Spread(stored.sourceTypeMultipliers, preset.sourceTypeMultipliers),
        !.eventOverrides = Spread(stored.eventOverrides, preset.eventOverrides)]

\* store.policyByApiKey.set(apiKey, preset): what was stored is discarded
presetOnto(stored, preset) == preset

applyPolicyPreset(apiKey, presetName) ==
    IF presetName \notin DOMAIN POLICY_PRESETS
    THEN Spread(Thrown, [error |-> "Unknown preset. Supported presets: open, balanced, strict.",
                         policyByApiKey |-> policyByApiKey])
    ELSE LET preset == Spread(clonePreset(presetName), [updatedAt |-> NowDay])
             next == presetOnto(getPolicy(apiKey), preset)
         IN  [ok |-> TRUE,
              next |-> preset,
              policyByApiKey |-> Spread(policyByApiKey, [k \in {apiKey} |-> next])]

----------------------------------------------------------------------------
(* store.js and service.js: the event ledger and the score reads *)

scopedAgentId_Unscoped(apiKey, agentId) == <<"", agentId>>

\* `${apiKey}::${agentId}`
scopedAgentId(apiKey, agentId) == <<apiKey, agentId>>

kindValid(kind) == kind \in {"positive", "neutral", "negative"}

getAgentEvents(agentScope) ==
    IF agentScope \in DOMAIN eventsByAgentId THEN eventsByAgentId[agentScope] ELSE <<>>

appendEvent_Unshift(scopeId, event) ==
    Spread(eventsByAgentId, [k \in {scopeId} |-> <<event>> \o getAgentEvents(scopeId)])

\* existing.push(event)
appendEvent(scopeId, event) ==
    Spread(eventsByAgentId, [k \in {scopeId} |-> Append(getAgentEvents(scopeId), event)])

\* new Date(payload.occurredAt) is not a date
InvalidDate == 0 - 2

\* the event postEvent builds from a payload
eventOf(payload) ==
    [agentId |-> normalizeAgentId(payload.agentId),
     kind |-> payload.kind,
     eventType |-> payload.eventType,
     source |-> payload.source,
     sourceType |-> payload.sourceType,
     \* Number.isFinite(Number(payload.confidence)) ? Number(...) : undefined
     confidence |-> IF payload.confidence = JsonNull THEN 0 ELSE payload.confidence,
     externalEventId |-> IF "externalEventId" \in DOMAIN payload
                         THEN payload.externalEventId ELSE Undefined,
     createdAt |-> IF payload.occurredAt = NoNumber THEN NowDay ELSE payload.occurredAt]

\* limits is what the rate limiter, the monthly usage and the duplicate
\* check answer for this request: "ok", "rate_limited", "plan_limit" or
\* "duplicate".  The value is the response and the ledger with the event
\* appended; the usage and the alerts are the caller's.
postEvent(account, payload, limits) ==
    LET agentId == normalizeAgentId(payload.agentId)
        agentScope == scopedAgentId(account, agentId)
        eventType == payload.eventType
        kind == payload.kind
        event == Spread(eventOf(payload), [sourceApiKey |-> account])
        createdAt == event.createdAt
        oldScore == scoreAgent(agentId, getAgentEvents(agentScope), EmptyMap).score
        appended == appendEvent(agentScope, event)
        score == scoreAgent(agentId, appended[agentScope], EmptyMap)
        rejected(status) == [status |-> status, appended |-> FALSE]
    IN  IF limits = "rate_limited" THEN rejected(429)
        ELSE IF agentId = "" THEN rejected(400)
        ELSE IF eventType = "" THEN rejected(400)
        ELSE IF ~kindValid(kind) THEN rejected(400)
        ELSE IF limits = "plan_limit" THEN rejected(402)
        ELSE IF createdAt = InvalidDate THEN rejected(400)
        ELSE IF limits = "duplicate" THEN rejected(409)
        ELSE [status |-> 201,
              appended |-> TRUE,
              eventsByAgentId |-> appended,
              oldScore |-> oldScore,
              scored |-> score,
              body |-> [event |-> event,
                        score |-> [value |-> score.score, level |-> score.level]]]

getScore(account, agentId, limits) ==
    LET normalizedAgentId == normalizeAgentId(agentId)
        agentScope == scopedAgentId(account, normalizedAgentId)
    IN  IF limits = "rate_limited" THEN [status |-> 429]
        ELSE IF normalizedAgentId = "" THEN [status |-> 400]
        ELSE IF limits = "plan_limit" THEN [status |-> 402]
        ELSE [status |-> 200,
              body |-> scoreAgent(normalizedAgentId, getAgentEvents(agentScope),
                                  getPolicy(account))]

\* no ScoreResult (null)
NoScore == [agentId |-> ""]

scoreForAccountAgent(account, agentId) ==
    IF normalizeAgentId(agentId) = "" THEN NoScore
    ELSE
    scoreAgent(normalizeAgentId(agentId),
               getAgentEvents(scopedAgentId(account, normalizeAgentId(agentId))),
               getPolicy(account))

----------------------------------------------------------------------------
(* webhooks.js: score alerts *)

\* webhook ids are drawn from 1..MaxWebhooks
MaxWebhooks == 1
\* decision log rows kept in the store
MaxDecisionLogs == 1
\* events in the ledger when every operation on the store is interleaved
MaxLedger == 2

listWebhooks(apiKey) ==
    IF apiKey \in DOMAIN webhooksByApiKey THEN webhooksByApiKey[apiKey] ELSE <<>>

crossedDown_AtOrBelow(previousScore, score, threshold) == score <= threshold

crossedDown(previousScore, score, threshold) ==
    previousScore > threshold /\ score <= threshold

\* outcome is what decryptSecret and postWebhook do for the webhooks that
\* fire: "delivered", or "undecryptable" when the stored secret cannot be
\* decrypted and nothing is sent; both append a delivery row.  A POST that
\* fails differs from "delivered" in the row's status only.
emitScoreAlerts(account, agentId, previousScore, score, outcome) ==
    LET webhooks == listWebhooks(account)
        firing == {webhooks[i].id : i \in {i \in DOMAIN webhooks :
                      /\ webhooks[i].enabled
                      /\ crossedDown(previousScore, score, webhooks[i].threshold)
                      /\ <<webhooks[i].id, agentId>> \notin webhookSuppression}}
        row == [agentId |-> agentId, score |-> score, ok |-> outcome = "delivered"]
        deliveriesOf(id) ==
            IF id \in DOMAIN webhookDeliveries THEN webhookDeliveries[id] ELSE <<>>
    IN  IF users[account] = "free" \/ firing = {}
        THEN [webhookDeliveries |-> webhookDeliveries,
              webhookSuppression |-> webhookSuppression]
        ELSE [webhookDeliveries |->
                  [id \in (DOMAIN webhookDeliveries) \cup firing |->
                      IF id \in firing
                      THEN SubSeq(<<row>> \o deliveriesOf(id), 1,
                                  Min(20, 1 + Len(deliveriesOf(id))))
                      ELSE webhookDeliveries[id]],
              webhookSuppression |->
                  IF outcome = "undecryptable" THEN webhookSuppression
                  ELSE webhookSuppression \cup {<<id, agentId>> : id \in firing}]

----------------------------------------------------------------------------
(* The ledger: events are posted, the policy is changed, scores are read *)

OldestDay == NowDay - DECAY_HALF_LIFE_DAYS * MaxAgePeriods
HalfLifeAgo == NowDay - DECAY_HALF_LIFE_DAYS

EventPayload(kind, eventType, source, sourceType, confidence, occurredAt) ==
    [agentId |-> "agent:a", kind |-> kind, eventType |-> eventType, source |-> source,
     sourceType |-> sourceType, confidence |-> confidence, occurredAt |-> occurredAt]

OnTimeTask ==
    EventPayload("positive", "completed_task_on_time", Undefined, Undefined,
                 NoNumber, NoNumber)
KeyLeak ==
    EventPayload("negative", "api_key_leak", Undefined, Undefined, NoNumber, NoNumber)
VerifiedFailedPayment ==
    EventPayload("negative", "failed_payment", "stripe", "verified_integration",
                 20, HalfLifeAgo)
\* confidence 0.2, source 'unknown'
WeakFailedPayment ==
    EventPayload("negative", "failed_payment", "unknown", "self_reported", 4, NoNumber)
VerifiedPayment ==
    EventPayload("positive", "payment_success", "stripe", "verified_integration",
                 20, NoNumber)
\* an event type without a configured weight
OldCustomSignal ==
    EventPayload("positive", "custom_signal", "stripe", "self_reported", 4, OldestDay)
AbandonedTask ==
    EventPayload("negative", "task_abandoned", Undefined, "manual", NoNumber, NoNumber)

ValidEventPayloads ==
    {OnTimeTask, KeyLeak, VerifiedFailedPayment, WeakFailedPayment, VerifiedPayment,
     OldCustomSignal, AbandonedTask}

InvalidEventPayloads ==
    {[OnTimeTask EXCEPT !.agentId = ""],
     [OnTimeTask EXCEPT !.eventType = ""],
     [OnTimeTask EXCEPT !.kind = "bogus"],
     [OnTimeTask EXCEPT !.occurredAt = InvalidDate]}

EventPayloads == ValidEventPayloads \cup InvalidEventPayloads

\* {minConfidence: 0.9, allowedSources: ["stripe"]}
ConfidenceAndSourcePolicy == [minConfidence |-> 18, allowedSources |-> {"stripe"}]
\* failed_payment is switched off and a sensitive event must be verified
VerifiedSensitivePolicy ==
    [requireVerifiedSensitive |-> TRUE,
     eventOverrides |-> [failed_payment |-> [enabled |-> FALSE]]]
\* multipliers 3 and 2
BoostPolicy ==
    [eventOverrides |-> [payment_success |-> [multiplier |-> 60]],
     sourceTypeMultipliers |-> [self_reported |-> 40]]

PolicyPayloads ==
    {ConfidenceAndSourcePolicy, VerifiedSensitivePolicy, BoostPolicy,
     [minConfidence |-> NoNumber]}

Limits == {"ok", "rate_limited", "plan_limit", "duplicate"}

Init ==
    /\ usageByMonthAndApiKey = EmptyMap
    /\ processedInboundEvents = {}
    /\ inboundSecretsByApiKey = EmptyMap
    /\ pendingDeliveries = <<>>
    /\ users = [k \in ApiKeys |-> "starter"]
    /\ webhooksByApiKey = EmptyMap
    /\ webhookDeliveries = EmptyMap
    /\ webhookSuppression = {}
    /\ eventsByAgentId = EmptyMap
    /\ policyByApiKey = EmptyMap
    /\ decisionLogsByApiKey = EmptyMap
    /\ scored = NoScore
    /\ call = [op |-> "none"]
    /\ res = Pending

\* POST /v1/events, with the request bodies drawn from payloads, while the
\* ledger holds fewer than maxEvents events
PostEventWith(payloads, maxEvents) ==
    \E account \in DOMAIN users, payload \in payloads, limits \in Limits,
       outcome \in {"delivered", "undecryptable"} :
        /\ limits = "ok" \/ payload = OnTimeTask
        /\ outcome = "delivered" \/ (limits = "ok" /\ listWebhooks(account) # <<>>)
        /\ Cardinality({<<k, i>> \in (DOMAIN eventsByAgentId) \X (1..maxEvents) :
                            i <= Len(eventsByAgentId[k])}) < maxEvents
        /\ \E r \in {postEvent(account, payload, limits)} :
            /\ call' = [op |-> "postEvent", account |-> account,
                        agentId |-> payload.agentId, confidence |-> payload.confidence]
            /\ res' = [f \in (DOMAIN r) \cap {"status", "body"} |-> r[f]]
            /\ eventsByAgentId' = IF r.appended THEN r.eventsByAgentId ELSE eventsByAgentId
            /\ scored' = IF r.appended THEN r.scored ELSE NoScore
            /\ \E alerts \in {IF r.appended
                              THEN emitScoreAlerts(account, r.body.event.agentId,
                                                   r.oldScore, r.scored.score, outcome)
                              ELSE [webhookDeliveries |-> webhookDeliveries,
                                    webhookSuppression |-> webhookSuppression]} :
                   /\ webhookDeliveries' = alerts.webhookDeliveries
                   /\ webhookSuppression' = alerts.webhookSuppression
            /\ UNCHANGED <<bookkeeping,
                           users, webhooksByApiKey, policyByApiKey, decisionLogsByApiKey>>

PostEvent == PostEventWith(EventPayloads, MaxEvents)

\* GET /v1/score
GetScore ==
    \E account \in DOMAIN users, agentId \in Agents \cup {""},
       limits \in Limits \ {"duplicate"} :
        /\ limits = "ok" \/ agentId # ""
        /\ \E r \in {getScore(account, agentId, limits)} :
            /\ call' = [op |-> "getScore", account |-> account, agentId |-> agentId]
            /\ res' = r
            /\ scored' = IF r.status = 200 THEN r.body ELSE NoScore
            /\ eventsByAgentId' =
                   IF r.status = 200
                   THEN [k \in DOMAIN eventsByAgentId |->
                            IF k = scopedAgentId(account, agentId)
                            THEN eventsAfterScore(eventsByAgentId[k])
                            ELSE eventsByAgentId[k]]
                   ELSE eventsByAgentId
            /\ UNCHANGED <<bookkeeping,
                           users, webhooksByApiKey, webhookDeliveries, webhookSuppression,
                   policyByApiKey, decisionLogsByApiKey>>

\* POST /v1/policy, with the request bodies drawn from payloads
SetPolicyWith(payloads) ==
    \E account \in DOMAIN users, payload \in payloads :
        \E r \in {setPolicy(account, payload)} :
            /\ call' = [op |-> "setPolicy", account |-> account, payload |-> payload]
            /\ res' = IF r.ok THEN [status |-> 200, body |-> [policy |-> r.next]]
                      ELSE [status |-> 400, body |-> [error |-> r.error]]
            /\ policyByApiKey' = r.policyByApiKey
            /\ scored' = NoScore
            /\ UNCHANGED <<bookkeeping,
                           users, webhooksByApiKey, webhookDeliveries, webhookSuppression,
                   eventsByAgentId, decisionLogsByApiKey>>

SetPolicy == SetPolicyWith(PolicyPayloads)

\* DELETE /v1/policy
ResetPolicy ==
    \E account \in DOMAIN users :
        \E r \in {resetPolicy(account)} :
            /\ call' = [op |-> "resetPolicy", account |-> account]
            /\ res' = [status |-> 200, body |-> [policy |-> r.policy, reset |-> TRUE]]
            /\ policyByApiKey' = r.policyByApiKey
            /\ scored' = NoScore
            /\ UNCHANGED <<bookkeeping,
                           users, webhooksByApiKey, webhookDeliveries, webhookSuppression,
                   eventsByAgentId, decisionLogsByApiKey>>

Next == PostEvent \/ GetScore \/ SetPolicy \/ ResetPolicy

Spec == Init /\ [][Next]_vars

----------------------------------------------------------------------------
(* The policy operations alone, over request bodies of every shape *)

\* {eventOverrides: {failed_payment: {multiplier: 0.5}},
\*  sourceTypeMultipliers: {partner: 1.5}}
RetunePolicy ==
    [eventOverrides |-> [failed_payment |-> [multiplier |-> 10]],
     sourceTypeMultipliers |-> [partner |-> 30]]
\* {minConfidence: 1.5, allowedSources: []}
RelaxSourcesPolicy == [minConfidence |-> 30, allowedSources |-> {}]

ValidPolicyPayloads ==
    {ConfidenceAndSourcePolicy, VerifiedSensitivePolicy, BoostPolicy, RetunePolicy,
     RelaxSourcesPolicy, EmptyMap}

\* bodies on which setPolicy throws; all but the first two carry a valid
\* field that setPolicy reads before the malformed one
InvalidPolicyPayloads ==
    {[malformed |-> {<<"payload">>}],
     [minConfidence |-> NoNumber, allowedSources |-> {"plaid"}],
     [minConfidence |-> 10, malformed |-> {<<"allowedSources">>}],
     [minConfidence |-> 10, malformed |-> {<<"sourceTypeMultipliers">>}],
     [allowedSources |-> {"plaid"}, sourceTypeMultipliers |-> [manual |-> NoNumber]],
     [allowedSources |-> {"plaid"}, malformed |-> {<<"eventOverrides">>}],
     [sourceTypeMultipliers |-> [manual |-> 2],
      eventOverrides |-> [failed_payment |-> EmptyMap],
      malformed |-> {<<"eventOverrides", "failed_payment">>}],
     [minConfidence |-> 10,
      eventOverrides |-> [failed_payment |-> [enabled |-> TRUE]],
      malformed |-> {<<"eventOverrides", "failed_payment", "enabled">>}],
     [allowedSources |-> {"plaid"},
      eventOverrides |-> [failed_payment |-> [multiplier |-> NoNumber]]],
     [minConfidence |-> 10, eventOverrides |-> [payment_success |-> [enabled |-> FALSE]],
      malformed |-> {<<"requireVerifiedSensitive">>}]}

PolicyEditPayloads == ValidPolicyPayloads \cup InvalidPolicyPayloads

PresetNames == {"open", "balanced", "strict", "custom"}

\* POST /v1/policy/presets
ApplyPolicyPreset ==
    \E account \in DOMAIN users, presetName \in PresetNames :
        \E r \in {applyPolicyPreset(account, presetName)} :
            /\ call' = [op |-> "applyPolicyPreset", account |-> account,
                        preset |-> presetName]
            /\ res' = IF r.ok THEN [status |-> 200, body |-> [policy |-> r.next]]
                      ELSE [status |-> 400, body |-> [error |-> r.error]]
            /\ policyByApiKey' = r.policyByApiKey
            /\ scored' = NoScore
            /\ UNCHANGED <<bookkeeping,
                           users, webhooksByApiKey, webhookDeliveries, webhookSuppression,
                   eventsByAgentId, decisionLogsByApiKey>>

SetPolicyEdit == SetPolicyWith(PolicyEditPayloads)

NextPolicy == SetPolicyEdit \/ ResetPolicy \/ ApplyPolicyPreset

SpecPolicy == Init /\ [][NextPolicy]_vars

----------------------------------------------------------------------------
(* Several tenants: events, scores, decisions, policies, webhooks and keys *)

\* the keys that can be live; a generated key is one not in use
KeyPool == {"key_a", "key_b", "key_c"}

\* POST /v1/integrations/ingest/events.  verified is what
\* verifyInboundSignature answers, duplicate what markProcessedInbound does.
IngestVerifiedEvent ==
    \E account \in DOMAIN users,
       payload \in {[agentId |-> "agent:a", kind |-> "positive",
                     eventType |-> "payment_success", source |-> src,
                     eventId |-> "evt_1", confidence |-> NoNumber, verified |-> TRUE,
                     occurredAt |-> NoNumber] : src \in {"plaid", ""}},
       verified \in {200, 401, 403}, duplicate \in BOOLEAN,
       outcome \in {"delivered", "undecryptable"} :
        /\ outcome = "delivered" \/ (verified = 200 /\ listWebhooks(account) # <<>>)
        /\ duplicate => verified = 200
        /\ Cardinality({<<k, i>> \in (DOMAIN eventsByAgentId) \X (1..MaxLedger) :
                            i <= Len(eventsByAgentId[k])}) < MaxLedger
        /\ call' = [op |-> "ingestVerifiedEvent", account |-> account,
                    agentId |-> payload.agentId]
        /\ IF verified # 200 \/ payload.source = "" \/ payload.eventId = "" \/ duplicate
           THEN /\ res' = [status |-> IF verified # 200 THEN verified
                                      ELSE IF duplicate /\ payload.source # "" THEN 200
                                      ELSE 400]
                /\ scored' = NoScore
                /\ UNCHANGED <<eventsByAgentId, webhookDeliveries, webhookSuppression>>
           ELSE \E r \in {postEvent(account,
                                    [agentId |-> payload.agentId, kind |-> payload.kind,
                                     eventType |-> payload.eventType,
                                     occurredAt |-> payload.occurredAt,
                                     source |-> payload.source,
                                     sourceType |-> "verified_integration",
                                     confidence |->
                                         IF payload.confidence # NoNumber
                                         THEN clamp(payload.confidence, 0, FactorScale)
                                         ELSE IF payload.verified THEN 19 ELSE 16],
                                    "ok")} :
                \E alerts \in {emitScoreAlerts(account, r.body.event.agentId,
                                               r.oldScore, r.scored.score, outcome)} :
                    /\ res' = [status |-> 201,
                               body |-> [accepted |-> TRUE, duplicate |-> FALSE,
                                         event |-> r.body.event, score |-> r.body.score]]
                    /\ eventsByAgentId' = r.eventsByAgentId
                    /\ scored' = r.scored
                    /\ webhookDeliveries' = alerts.webhookDeliveries
                    /\ webhookSuppression' = alerts.webhookSuppression
        /\ UNCHANGED <<bookkeeping,
                       users, webhooksByApiKey, policyByApiKey, decisionLogsByApiKey>>

\* POST /v1/clawcredit/preflight
ClawCreditPreflight ==
    \E account \in DOMAIN users,
       payload \in {p \in PreflightPayloads :
                       /\ p.amountUsd = NoNumber
                       /\ ~p.newPayee /\ ~p.firstTimeCounterparty
                       /\ ~p.highPrivilegeAction /\ ~p.exposesApiKeys} :
        /\ Cardinality({<<k, i>> \in (DOMAIN decisionLogsByApiKey) \X (1..MaxDecisionLogs) :
                            i <= Len(decisionLogsByApiKey[k])}) < MaxDecisionLogs
        /\ \E trust \in {scoreForAccountAgent(account, payload.agentId)} :
           \E r \in {clawCreditPreflight(account, payload, trust)} :
               /\ call' = [op |-> "clawCreditPreflight", account |-> account,
                           agentId |-> payload.agentId]
               /\ res' = [f \in (DOMAIN r) \ {"log", "logged"} |-> r[f]]
               /\ decisionLogsByApiKey' =
                      IF r.logged
                      THEN appendDecisionLog(decisionLogsByApiKey, account, r.log)
                      ELSE decisionLogsByApiKey
               /\ scored' = trust
        /\ UNCHANGED <<bookkeeping,
                       eventsByAgentId, policyByApiKey, users, webhooksByApiKey,
                       webhookDeliveries, webhookSuppression>>

\* POST /v1/webhooks; the id is a UUID, one that names nothing in the store
CreateWebhook ==
    \E account \in DOMAIN users, id \in 1..MaxWebhooks,
       payload \in {[url |-> "https://hooks.example/alerts", threshold |-> t,
                     secret |-> "whsec_12345"] : t \in {40, 55, 101, NoNumber}}
                   \cup {[url |-> "", threshold |-> 40, secret |-> "whsec_12345"],
                         [url |-> "https://hooks.example/alerts", threshold |-> 40,
                          secret |-> "short"]} :
        /\ id \notin DOMAIN webhookDeliveries
        /\ \A k \in DOMAIN webhooksByApiKey :
               \A i \in DOMAIN webhooksByApiKey[k] : webhooksByApiKey[k][i].id # id
        /\ \A j \in 1..(id - 1) :
               \/ j \in DOMAIN webhookDeliveries
               \/ \E k \in DOMAIN webhooksByApiKey :
                      \E i \in DOMAIN webhooksByApiKey[k] : webhooksByApiKey[k][i].id = j
        /\ call' = [op |-> "createWebhook", account |-> account]
        /\ \E status \in {IF users[account] = "free" THEN 403
                          ELSE IF payload.url = "" THEN 400
                          ELSE IF payload.threshold = NoNumber \/ payload.threshold < 0
                                  \/ payload.threshold > 100 THEN 400
                          ELSE IF payload.secret = "" \/ payload.secret = "short" THEN 400
                          ELSE IF Len(listWebhooks(account)) >= 20 THEN 402
                          ELSE 201} :
               /\ res' = [status |-> status]
               /\ webhooksByApiKey' =
                      IF status = 201
                      THEN Spread(webhooksByApiKey,
                                  [k \in {account} |->
                                      Append(listWebhooks(account),
                                             [id |-> id, threshold |-> payload.threshold,
                                              enabled |-> TRUE])])
                      ELSE webhooksByApiKey
        /\ scored' = NoScore
        /\ UNCHANGED <<bookkeeping,
                       eventsByAgentId, policyByApiKey, decisionLogsByApiKey, users,
                       webhookDeliveries, webhookSuppression>>

\* DELETE /v1/webhooks/:id
DeleteWebhook ==
    \E account \in DOMAIN users, webhookId \in 1..MaxWebhooks :
        \E updated \in {SelectSeq(listWebhooks(account), LAMBDA w : w.id # webhookId)} :
            /\ call' = [op |-> "deleteWebhook", account |-> account]
            /\ res' = [status |-> IF Len(updated) = Len(listWebhooks(account))
                                  THEN 404 ELSE 200]
            /\ webhooksByApiKey' =
                   IF Len(updated) = Len(listWebhooks(account)) THEN webhooksByApiKey
                   ELSE Spread(webhooksByApiKey, [k \in {account} |-> updated])
            /\ scored' = NoScore
            /\ UNCHANGED <<bookkeeping,
                           eventsByAgentId, policyByApiKey, decisionLogsByApiKey, users,
                           webhookDeliveries, webhookSuppression>>

moveApiKeyScopedMap_Copied(map, oldApiKey, newApiKey) ==
    [k \in (DOMAIN map) \cup (IF oldApiKey \in DOMAIN map THEN {newApiKey} ELSE {}) |->
        IF k = newApiKey THEN map[oldApiKey] ELSE map[k]]

\* map.set(newApiKey, map.get(oldApiKey)); map.delete(oldApiKey), when the map
\* has oldApiKey
moveApiKeyScopedMap(map, oldApiKey, newApiKey) ==
    [k \in ((DOMAIN map) \ {oldApiKey})
           \cup (IF oldApiKey \in DOMAIN map THEN {newApiKey} ELSE {}) |->
        IF k = newApiKey THEN map[oldApiKey] ELSE map[k]]

\* the key store's rotateUserApiKey: the user record, the usage, the webhooks,
\* the decision log, the policy, the ingest secret and the processed inbound
\* ids move to the new key; the ledger, the deliveries and the cooldowns are
\* not touched
RotateUserApiKey ==
    \E oldApiKey \in DOMAIN users, newApiKey \in KeyPool \ DOMAIN users :
        LET moved(map) == moveApiKeyScopedMap(map, oldApiKey, newApiKey)
        IN  /\ \A scope \in DOMAIN eventsByAgentId : scope[1] # newApiKey
            /\ call' = [op |-> "rotateUserApiKey", account |-> oldApiKey]
            /\ res' = [status |-> 200, body |-> [apiKey |-> newApiKey,
                                                 tier |-> users[oldApiKey]]]
            /\ users' = moved(users)
            /\ webhooksByApiKey' = moved(webhooksByApiKey)
            /\ decisionLogsByApiKey' = moved(decisionLogsByApiKey)
            /\ policyByApiKey' = moved(policyByApiKey)
            /\ usageByMonthAndApiKey' = moved(usageByMonthAndApiKey)
            /\ inboundSecretsByApiKey' = moved(inboundSecretsByApiKey)
            /\ processedInboundEvents' =
                   {IF key[1] = oldApiKey THEN <<newApiKey, key[2], key[3]>> ELSE key :
                        key \in processedInboundEvents}
            /\ scored' = NoScore
            /\ UNCHANGED <<eventsByAgentId, webhookDeliveries, webhookSuppression,
                           pendingDeliveries>>

\* the key store's revokeUserApiKey: purgeApiKeyScopedData drops the key's
\* webhooks with their deliveries and cooldowns, its decision log, policy,
\* ingest secret, usage and processed inbound ids
RevokeUserApiKey ==
    \E apiKey \in DOMAIN users :
        LET hooks == {listWebhooks(apiKey)[i].id : i \in DOMAIN listWebhooks(apiKey)}
            purged(map) == [k \in (DOMAIN map) \ {apiKey} |-> map[k]]
        IN  /\ call' = [op |-> "revokeUserApiKey", account |-> apiKey]
            /\ res' = [status |-> 200]
            /\ users' = purged(users)
            /\ webhooksByApiKey' = purged(webhooksByApiKey)
            /\ decisionLogsByApiKey' = purged(decisionLogsByApiKey)
            /\ policyByApiKey' = purged(policyByApiKey)
            /\ webhookDeliveries' =
                   [id \in (DOMAIN webhookDeliveries) \ hooks |-> webhookDeliveries[id]]
            /\ webhookSuppression' = {key \in webhookSuppression : key[1] \notin hooks}
            /\ usageByMonthAndApiKey' = purged(usageByMonthAndApiKey)
            /\ inboundSecretsByApiKey' = purged(inboundSecretsByApiKey)
            /\ processedInboundEvents' =
                   {key \in processedInboundEvents : key[1] # apiKey}
            /\ scored' = NoScore
            /\ UNCHANGED <<eventsByAgentId, pendingDeliveries>>

\* WEBHOOK_COOLDOWN_MS have passed since the last alerts: an hour, which the
\* ages of the events, counted in half-lives, do not register
CooldownElapses ==
    /\ webhookSuppression # {}
    \* a POST is given up after WEBHOOK_TIMEOUT_MS, five seconds
    /\ pendingDeliveries = <<>>
    /\ webhookSuppression' = {}
    /\ UNCHANGED <<bookkeeping,
                   eventsByAgentId, policyByApiKey, decisionLogsByApiKey, users,
                   webhooksByApiKey, webhookDeliveries, scored, call, res>>

\* the key store's downgradeTier, on a cancelled subscription
DowngradeTier ==
    \E apiKey \in DOMAIN users :
        /\ users' = [users EXCEPT ![apiKey] = "free"]
        /\ call' = [op |-> "downgradeTier", account |-> apiKey]
        /\ res' = [status |-> 200]
        /\ scored' = NoScore
        /\ UNCHANGED <<bookkeeping,
                       eventsByAgentId, policyByApiKey, decisionLogsByApiKey,
                       webhooksByApiKey, webhookDeliveries, webhookSuppression>>

\* every operation on the store, from one starter account
NextOperations ==
    \/ PostEventWith({KeyLeak, [KeyLeak EXCEPT !.kind = "bogus"]}, MaxLedger)
    \/ IngestVerifiedEvent
    \/ GetScore
    \/ ClawCreditPreflight
    \/ SetPolicyWith({VerifiedSensitivePolicy, [minConfidence |-> NoNumber]})
    \/ ResetPolicy
    \/ CreateWebhook
    \/ DeleteWebhook
    \/ RotateUserApiKey
    \/ RevokeUserApiKey
    \/ DowngradeTier
    \/ CooldownElapses

SpecOperations == Init /\ [][NextOperations]_vars

\* the Map key `${apiKey}::${agentId}` under which a scope is stored
scopeKey(scope) == scope[1] \o "::" \o scope[2]

\* store.getAgentEvents called with a string: the list stored under that key
getAgentEventsAt(key) ==
    LET named == {scope \in DOMAIN eventsByAgentId : scopeKey(scope) = key}
    IN  IF named = {} THEN <<>> ELSE eventsByAgentId[CHOOSE scope \in named : TRUE]

\* POST /v1/clawcredit/preflight as the policy-aware revision of
\* clawCreditPreflight answers it: scoreAgent(agentId, getAgentEvents(agentId),
\* { policy }), the ledger read under the agentId of the request.  The agentId
\* is any string: an agent's id, or one spelled like a key of the ledger
ClawCreditPreflightGated ==
    \E account \in DOMAIN users,
       agentId \in Agents \cup {scopeKey(scopedAgentId(k, a)) :
                                    k \in DOMAIN users, a \in Agents} :
        /\ Cardinality({<<k, i>> \in (DOMAIN decisionLogsByApiKey) \X (1..MaxDecisionLogs) :
                            i <= Len(decisionLogsByApiKey[k])}) < MaxDecisionLogs
        /\ \E policy \in {getPolicy(account)} :
           \E trust \in {scoreAgent(normalizeAgentId(agentId),
                                    getAgentEventsAt(normalizeAgentId(agentId)),
                                    policy)} :
           \E r \in {clawCreditPreflightGated(
                         account,
                         [agentId |-> agentId, amountUsd |-> NoNumber, newPayee |-> FALSE,
                          firstTimeCounterparty |-> FALSE, highPrivilegeAction |-> FALSE,
                          exposesApiKeys |-> FALSE],
                         policy, trust)} :
               /\ call' = [op |-> "clawCreditPreflightGated", account |-> account,
                           agentId |-> agentId]
               /\ res' = [f \in (DOMAIN r) \ {"log", "logged"} |-> r[f]]
               /\ decisionLogsByApiKey' =
                      IF r.logged
                      THEN appendDecisionLog(decisionLogsByApiKey, account, r.log)
                      ELSE decisionLogsByApiKey
               /\ scored' = trust
        /\ UNCHANGED <<bookkeeping,
                       eventsByAgentId, policyByApiKey, users, webhooksByApiKey,
                       webhookDeliveries, webhookSuppression>>

\* two accounts that post and read for the same agent
InitTenants ==
    /\ usageByMonthAndApiKey = EmptyMap
    /\ processedInboundEvents = {}
    /\ inboundSecretsByApiKey = EmptyMap
    /\ pendingDeliveries = <<>>
    /\ users = [k \in {"key_a", "key_b"} |-> IF k = "key_a" THEN "starter" ELSE "free"]
    /\ webhooksByApiKey = EmptyMap
    /\ webhookDeliveries = EmptyMap
    /\ webhookSuppression = {}
    /\ eventsByAgentId = EmptyMap
    /\ policyByApiKey = EmptyMap
    /\ decisionLogsByApiKey = EmptyMap
    /\ scored = NoScore
    /\ call = [op |-> "none"]
    /\ res = Pending

NextTenants ==
    \/ PostEventWith({OnTimeTask, KeyLeak}, MaxEvents)
    \/ GetScore
    \/ ClawCreditPreflight
    \/ ClawCreditPreflightGated
    \/ SetPolicyWith({VerifiedSensitivePolicy})

SpecTenants == InitTenants /\ [][NextTenants]_vars

----------------------------------------------------------------------------
(* service.js, webhooks.js and ingest.js: the handlers with the usage, the *)
(* processed inbound ids and the alerts they await                         *)

\* deliveries awaited at once
MaxPending == 2
\* calls left under each monthly limit of the plan when a metered month is
\* picked up
UsageHeadroom == 2

PLANS ==
    [free |-> [maxAgents |-> 5, maxEventsPerMonth |-> 100, maxChecksPerMonth |-> 200],
     starter |-> [maxAgents |-> 100, maxEventsPerMonth |-> 5000,
                  maxChecksPerMonth |-> 10000],
     pro |-> [maxAgents |-> 1000, maxEventsPerMonth |-> 100000,
              maxChecksPerMonth |-> 200000]]

\* the usage record of this month, a zero record when there is none
getUsage(apiKey) ==
    IF apiKey \in DOMAIN usageByMonthAndApiKey THEN usageByMonthAndApiKey[apiKey]
    ELSE [trackedAgents |-> {}, eventsLogged |-> 0, scoreChecks |-> 0]

\* TRUE when the agent may be tracked (the handler answers 402 otherwise)
enforceAgentCap_Unlimited(usage, plan, agentId) == TRUE

enforceAgentCap(usage, plan, agentId) ==
    agentId \in usage.trackedAgents \/ Cardinality(usage.trackedAgents) < plan.maxAgents

\* postEvent with the plan's limits read from the usage record; answer is
\* what the rate limiter and the duplicate check say: "ok", "rate_limited"
\* or "duplicate"
postEventMetered(account, payload, answer) ==
    postEvent(account, payload,
              IF answer = "rate_limited" THEN answer
              ELSE IF ~enforceAgentCap(getUsage(account), PLANS[users[account]],
                                       normalizeAgentId(payload.agentId))
                      \/ getUsage(account).eventsLogged
                             >= PLANS[users[account]].maxEventsPerMonth
              THEN "plan_limit"
              ELSE answer)

appendWebhookDelivery(deliveries, webhookId, row) ==
    [id \in (DOMAIN deliveries) \cup {webhookId} |->
        IF id # webhookId THEN deliveries[id]
        ELSE IF id \in DOMAIN deliveries
        THEN SubSeq(<<row>> \o deliveries[id], 1, Min(20, 1 + Len(deliveries[id])))
        ELSE <<row>>]

\* The loop of emitScoreAlerts from its i-th webhook up to the first POST it
\* awaits: run holds the call's webhooks, agent, scores and whether the
\* stored secrets decrypt.  The value is the deliveries so far and the run
\* with the index of the webhook whose POST is awaited, 0 when the loop ended.
RECURSIVE emitScoreAlertsFrom(_, _, _, _)
emitScoreAlertsFrom(run, i, deliveries, suppression) ==
    IF i > Len(run.webhooks)
    THEN [webhookDeliveries |-> deliveries, run |-> [run EXCEPT !.awaiting = 0]]
    ELSE IF \/ ~crossedDown(run.previousScore, run.score, run.webhooks[i].threshold)
            \/ <<run.webhooks[i].id, run.agentId>> \in suppression
    THEN emitScoreAlertsFrom(run, i + 1, deliveries, suppression)
    ELSE IF ~run.decryptable
    THEN emitScoreAlertsFrom(run, i + 1,
                             appendWebhookDelivery(deliveries, run.webhooks[i].id,
                                                   [agentId |-> run.agentId,
                                                    score |-> run.score, ok |-> FALSE]),
                             suppression)
    ELSE [webhookDeliveries |-> deliveries, run |-> [run EXCEPT !.awaiting = i]]

\* What postEvent does to the store once its answer r is known: the event
\* and the usage are written, then emitScoreAlerts runs up to its first
\* awaited POST.
PostEventHandled(account, payload, r, decryptable) ==
    /\ eventsByAgentId' = IF r.appended THEN r.eventsByAgentId ELSE eventsByAgentId
    /\ scored' = IF r.appended THEN r.scored ELSE NoScore
    /\ usageByMonthAndApiKey' =
           IF r.status = 429 THEN usageByMonthAndApiKey
           ELSE Spread(usageByMonthAndApiKey,
                       [k \in {account} |->
                           IF r.appended
                           THEN [trackedAgents |->
                                     getUsage(account).trackedAgents
                                         \cup {normalizeAgentId(payload.agentId)},
                                 eventsLogged |-> getUsage(account).eventsLogged + 1,
                                 scoreChecks |-> getUsage(account).scoreChecks]
                           ELSE getUsage(account)])
    /\ \E alerts \in {IF r.appended /\ users[account] # "free"
                      THEN emitScoreAlertsFrom(
                               [webhooks |-> SelectSeq(listWebhooks(account),
                                                       LAMBDA w : w.enabled),
                                agentId |-> r.body.event.agentId,
                                previousScore |-> r.oldScore, score |-> r.scored.score,
                                decryptable |-> decryptable, awaiting |-> 0],
                               1, webhookDeliveries, webhookSuppression)
                      ELSE [webhookDeliveries |-> webhookDeliveries,
                            run |-> [awaiting |-> 0]]} :
           /\ webhookDeliveries' = alerts.webhookDeliveries
           /\ pendingDeliveries' = IF alerts.run.awaiting = 0 THEN pendingDeliveries
                                   ELSE Append(pendingDeliveries, alerts.run)
    /\ Len(pendingDeliveries') <= MaxPending
    /\ UNCHANGED <<webhookSuppression, users, webhooksByApiKey, policyByApiKey,
                   decisionLogsByApiKey, inboundSecretsByApiKey>>

\* POST /v1/events
PostEventRequest(payloads, maxEvents) ==
    \E account \in DOMAIN users, payload \in payloads,
       answer \in {"ok", "rate_limited", "duplicate"}, decryptable \in BOOLEAN :
        /\ decryptable \/ (answer = "ok" /\ listWebhooks(account) # <<>>)
        /\ Cardinality({<<k, i>> \in (DOMAIN eventsByAgentId) \X (1..maxEvents) :
                            i <= Len(eventsByAgentId[k])}) < maxEvents
        /\ \E r \in {postEventMetered(account, payload, answer)} :
            /\ call' = [op |-> "postEvent", account |-> account,
                        agentId |-> payload.agentId, confidence |-> payload.confidence]
            /\ res' = [f \in (DOMAIN r) \cap {"status", "body"} |-> r[f]]
            /\ PostEventHandled(account, payload, r, decryptable)
            /\ UNCHANGED processedInboundEvents

\* GET /v1/score
GetScoreRequest(agentIds) ==
    \E account \in DOMAIN users, agentId \in agentIds, answer \in {"ok", "rate_limited"} :
        \E r \in {getScore(account, agentId,
                           IF answer = "rate_limited" THEN answer
                           ELSE IF ~enforceAgentCap(getUsage(account),
                                                    PLANS[users[account]],
                                                    normalizeAgentId(agentId))
                                   \/ getUsage(account).scoreChecks
                                          >= PLANS[users[account]].maxChecksPerMonth
                           THEN "plan_limit"
                           ELSE answer)} :
            /\ call' = [op |-> "getScore", account |-> account, agentId |-> agentId]
            /\ res' = r
            /\ scored' = IF r.status = 200 THEN r.body ELSE NoScore
            /\ usageByMonthAndApiKey' =
                   IF r.status \in {429, 400} THEN usageByMonthAndApiKey
                   ELSE Spread(usageByMonthAndApiKey,
                               [k \in {account} |->
                                   IF r.status = 200
                                   THEN [trackedAgents |->
                                             getUsage(account).trackedAgents
                                                 \cup {normalizeAgentId(agentId)},
                                         eventsLogged |-> getUsage(account).eventsLogged,
                                         scoreChecks |->
                                             getUsage(account).scoreChecks + 1]
                                   ELSE getUsage(account)])
            /\ UNCHANGED <<eventsByAgentId, policyByApiKey, decisionLogsByApiKey, users,
                           webhooksByApiKey, webhookDeliveries, webhookSuppression,
                           processedInboundEvents, inboundSecretsByApiKey,
                           pendingDeliveries>>

\* POST /v1/integrations/ingest/secret
RotateIngestSecret ==
    \E account \in DOMAIN users, secret \in {"ingest_1", "ingest_2"} :
        /\ account \in DOMAIN inboundSecretsByApiKey
               => inboundSecretsByApiKey[account].secret # secret
        /\ call' = [op |-> "rotateIngestSecret", account |-> account]
        /\ res' = [status |-> 200]
        /\ inboundSecretsByApiKey' =
               Spread(inboundSecretsByApiKey, [k \in {account} |-> [secret |-> secret]])
        /\ scored' = NoScore
        /\ UNCHANGED <<eventsByAgentId, policyByApiKey, decisionLogsByApiKey, users,
                       webhooksByApiKey, webhookDeliveries, webhookSuppression,
                       usageByMonthAndApiKey, processedInboundEvents, pendingDeliveries>>

markProcessedInbound_Forgets(key) == processedInboundEvents

\* the processed ids once the id of a submission is remembered
markProcessedInbound(key) == processedInboundEvents \cup {key}

\* POST /v1/integrations/ingest/events.  signed is what the comparison of
\* the signature and the timestamp answers when the key has a secret.
\* markProcessedInbound runs before postEvent is called.
IngestRequest(payloads, maxEvents) ==
    \E account \in DOMAIN users, payload \in payloads, signed \in {200, 401},
       answer \in {"ok", "rate_limited", "duplicate"}, decryptable \in BOOLEAN :
        LET verified == IF account \in DOMAIN inboundSecretsByApiKey THEN signed ELSE 403
            key == <<account, payload.source, payload.eventId>>
            fresh == /\ verified = 200 /\ payload.source # "" /\ payload.eventId # ""
                     /\ key \notin processedInboundEvents
        IN  /\ signed = 200 \/ account \in DOMAIN inboundSecretsByApiKey
            /\ answer = "ok" \/ fresh
            /\ decryptable \/ (answer = "ok" /\ fresh /\ listWebhooks(account) # <<>>)
            /\ Cardinality({<<k, i>> \in (DOMAIN eventsByAgentId) \X (1..maxEvents) :
                                i <= Len(eventsByAgentId[k])}) < maxEvents
            /\ call' = [op |-> "ingestVerifiedEvent", account |-> account,
                        agentId |-> payload.agentId, source |-> payload.source,
                        eventId |-> payload.eventId]
            /\ IF ~fresh
               THEN /\ res' = IF verified # 200 THEN [status |-> verified]
                              ELSE IF payload.source = "" \/ payload.eventId = ""
                              THEN [status |-> 400]
                              ELSE [status |-> 200,
                                    body |-> [accepted |-> TRUE, duplicate |-> TRUE]]
                    /\ scored' = NoScore
                    /\ UNCHANGED <<eventsByAgentId, policyByApiKey, decisionLogsByApiKey,
                                   users, webhooksByApiKey, webhookDeliveries,
                                   webhookSuppression, bookkeeping>>
               ELSE \E r \in {postEventMetered(
                                  account,
                                  [agentId |-> payload.agentId, kind |-> payload.kind,
                                   eventType |-> payload.eventType,
                                   occurredAt |-> payload.occurredAt,
                                   source |-> payload.source,
                                   sourceType |-> "verified_integration",
                                   confidence |->
                                       IF payload.confidence # NoNumber
                                       THEN clamp(payload.confidence, 0, FactorScale)
                                       ELSE IF payload.verified THEN 19 ELSE 16,
                                   externalEventId |-> payload.eventId],
                                  answer)} :
                        /\ processedInboundEvents' = markProcessedInbound(key)
                        /\ res' = IF r.status >= 400 THEN [status |-> r.status]
                                  ELSE [status |-> 201,
                                        body |-> [accepted |-> TRUE, duplicate |-> FALSE,
                                                  event |-> r.body.event,
                                                  score |-> r.body.score]]
                        /\ PostEventHandled(account, payload, r, decryptable)

\* the answer of an awaited POST arrives (or its five seconds run out): the
\* delivery row is written, the cooldown of the pair starts, and the loop of
\* that call goes on to its next webhook
DeliveryResponds ==
    \E n \in DOMAIN pendingDeliveries, ok \in BOOLEAN :
        LET run == pendingDeliveries[n]
            webhookId == run.webhooks[run.awaiting].id
            rest == [m \in 1..(Len(pendingDeliveries) - 1) |->
                        pendingDeliveries[IF m < n THEN m ELSE m + 1]]
        IN  \E alerts \in {emitScoreAlertsFrom(
                               run, run.awaiting + 1,
                               appendWebhookDelivery(webhookDeliveries, webhookId,
                                                     [agentId |-> run.agentId,
                                                      score |-> run.score, ok |-> ok]),
                               webhookSuppression \cup {<<webhookId, run.agentId>>})} :
                /\ webhookDeliveries' = alerts.webhookDeliveries
                /\ webhookSuppression' =
                       webhookSuppression \cup {<<webhookId, run.agentId>>}
                /\ pendingDeliveries' = IF alerts.run.awaiting = 0 THEN rest
                                        ELSE Append(rest, alerts.run)
                /\ UNCHANGED <<eventsByAgentId, policyByApiKey, decisionLogsByApiKey,
                               users, webhooksByApiKey, usageByMonthAndApiKey,
                               processedInboundEvents, inboundSecretsByApiKey, scored,
                               call, res>>

\* INGEST_TTL_MS have passed since an inbound id was processed: the next
\* markProcessedInbound prunes it before it looks the new id up
InboundRetentionElapses ==
    \E key \in processedInboundEvents :
        /\ pendingDeliveries = <<>>
        /\ processedInboundEvents' = processedInboundEvents \ {key}
        /\ UNCHANGED <<eventsByAgentId, policyByApiKey, decisionLogsByApiKey, users,
                       webhooksByApiKey, webhookDeliveries, webhookSuppression,
                       usageByMonthAndApiKey, inboundSecretsByApiKey, pendingDeliveries,
                       scored, call, res>>

----------------------------------------------------------------------------
(* A metered month of a free-plan tenant, picked up UsageHeadroom calls    *)
(* under each limit of the plan                                            *)

MeteredAgents ==
    <<"agent:a", "agent:b", "agent:c", "agent:d", "agent:e", "agent:f">>

\* The month so far.  The tenant has rotated its key since it logged its
\* events: the usage moved to the new key, the events stay in the scopes of
\* the old one (rotateUserApiKey does not touch the ledger).
InitMetering ==
    /\ users = [k \in ApiKeys |-> "free"]
    /\ usageByMonthAndApiKey =
           [k \in ApiKeys |->
               [trackedAgents |->
                    {MeteredAgents[i] : i \in 1..(PLANS.free.maxAgents - UsageHeadroom)},
                eventsLogged |-> PLANS.free.maxEventsPerMonth - UsageHeadroom,
                scoreChecks |-> PLANS.free.maxChecksPerMonth - UsageHeadroom]]
    /\ eventsByAgentId =
           [scope \in {scopedAgentId("key_0", MeteredAgents[1])} |->
               [n \in 1..(PLANS.free.maxEventsPerMonth - UsageHeadroom) |->
                   Spread(eventOf(OnTimeTask), [sourceApiKey |-> scope[1]])]]
    /\ processedInboundEvents = {}
    /\ inboundSecretsByApiKey = EmptyMap
    /\ pendingDeliveries = <<>>
    /\ webhooksByApiKey = EmptyMap
    /\ webhookDeliveries = EmptyMap
    /\ webhookSuppression = {}
    /\ policyByApiKey = EmptyMap
    /\ decisionLogsByApiKey = EmptyMap
    /\ scored = NoScore
    /\ call = [op |-> "none"]
    /\ res = Pending

NextMetering ==
    \/ PostEventRequest({[OnTimeTask EXCEPT !.agentId = MeteredAgents[i]] :
                            i \in DOMAIN MeteredAgents}
                        \cup {[OnTimeTask EXCEPT !.kind = "bogus"]},
                        PLANS.free.maxEventsPerMonth + 1)
    \/ GetScoreRequest({MeteredAgents[i] : i \in DOMAIN MeteredAgents} \cup {""})

SpecMetering == InitMetering /\ [][NextMetering]_vars

----------------------------------------------------------------------------
(* Signed inbound events and posted events of a tenant with a webhook,     *)
(* while the alerts of earlier calls still await their answers             *)

\* bodies of POST /v1/integrations/ingest/events: a payment, the same event
\* id with a kind postEvent refuses, and a body without a source
InboundPayloads ==
    {[agentId |-> "agent:a", kind |-> kind, eventType |-> "payment_success",
      source |-> "plaid", eventId |-> "evt_1", confidence |-> NoNumber,
      verified |-> TRUE, occurredAt |-> NoNumber] : kind \in {"positive", "bogus"}}
    \cup {[agentId |-> "agent:a", kind |-> "positive", eventType |-> "payment_success",
           source |-> "", eventId |-> "evt_1", confidence |-> NoNumber,
           verified |-> TRUE, occurredAt |-> NoNumber]}

NextInbound ==
    \/ RotateIngestSecret
    \/ IngestRequest(InboundPayloads, MaxEvents)
    \/ PostEventRequest({AbandonedTask, VerifiedPayment, KeyLeak}, MaxEvents)
    \/ CreateWebhook
    \/ DeliveryResponds
    \/ CooldownElapses
    \/ InboundRetentionElapses

SpecInbound == Init /\ [][NextInbound]_vars

----------------------------------------------------------------------------
(* A tenant that fills every key-scoped map of the store and rotates its   *)
(* key                                                                     *)

NextKeys ==
    \/ RotateIngestSecret
    \/ IngestRequest(InboundPayloads, MaxLedger)
    \/ CreateWebhook
    \/ SetPolicyWith({[minConfidence |-> 10]})
    \/ ClawCreditPreflight
    \/ RotateUserApiKey

SpecKeys == Init /\ [][NextKeys]_vars

----------------------------------------------------------------------------
(* Events submitted with and without a confidence, scored under a policy *)

\* the confidence of the request: absent, null, 0.2 and 2
NextSubmissions ==
    \/ PostEventWith({OnTimeTask, [VerifiedPayment EXCEPT !.confidence = JsonNull],
                      WeakFailedPayment, [VerifiedPayment EXCEPT !.confidence = 40]},
                     MaxEvents)
    \/ GetScore
    \/ SetPolicyWith({[minConfidence |-> 10]})

SpecSubmissions == Init /\ [][NextSubmissions]_vars

----------------------------------------------------------------------------
(* scoreAgent applied to drawn event lists and policies *)

RECURSIVE ListsOver(_, _)
ListsOver(S, n) ==
    IF n = 0 THEN {<<>>}
    ELSE LET shorter == ListsOver(S, n - 1)
         IN  shorter \cup {Append(l, e) : l \in shorter, e \in S}

\* every list of up to MaxEvents events, runs of task events, and pairs of
\* events of every age (a neutral event without a configured weight included)
EventListInputs ==
    ListsOver({eventOf(p) : p \in ValidEventPayloads}, MaxEvents)
    \cup ListsOver({eventOf(OnTimeTask), eventOf(AbandonedTask)}, MaxBurst)
    \cup ListsOver({eventOf([p EXCEPT !.occurredAt = NowDay - DECAY_HALF_LIFE_DAYS * n]) :
                        p \in ValidEventPayloads
                              \cup {[OldCustomSignal EXCEPT !.kind = "neutral"]},
                        n \in 0..MaxAgePeriods}, 2)

\* multipliers 100 and 1000, far outside what evaluatePolicy keeps
ExtremePolicy ==
    [sourceTypeMultipliers |-> [verified_integration |-> 2000],
     eventOverrides |-> [payment_success |-> [multiplier |-> 20000]]]

ScoringPolicyInputs ==
    {EmptyMap, ConfidenceAndSourcePolicy, VerifiedSensitivePolicy, BoostPolicy,
     ExtremePolicy}

InitScoring ==
    /\ usageByMonthAndApiKey = EmptyMap
    /\ processedInboundEvents = {}
    /\ inboundSecretsByApiKey = EmptyMap
    /\ pendingDeliveries = <<>>
    /\ users = [k \in ApiKeys |-> "starter"]
    /\ webhooksByApiKey = EmptyMap
    /\ webhookDeliveries = EmptyMap
    /\ webhookSuppression = {}
    /\ \E events \in EventListInputs :
           eventsByAgentId = [k \in {scopedAgentId("key_a", "agent:a")} |-> events]
    /\ policyByApiKey = EmptyMap
    /\ decisionLogsByApiKey = EmptyMap
    /\ scored = NoScore
    /\ call \in { [op |-> "scoreAgent", account |-> "key_a", agentId |-> "agent:a",
                   policy |-> p] : p \in ScoringPolicyInputs }
    /\ res = Pending

\* one call of scoreAgent on the drawn inputs; it may be called again
ScoreAgent ==
    /\ call.op = "scoreAgent"
    /\ scored' = scoreAgent(call.agentId,
                            getAgentEvents(scopedAgentId(call.account, call.agentId)),
                            call.policy)
    /\ eventsByAgentId' = [k \in DOMAIN eventsByAgentId |->
                               eventsAfterScore(eventsByAgentId[k])]
    /\ res' = [status |-> 200]
    /\ UNCHANGED <<bookkeeping,
                   users, webhooksByApiKey, webhookDeliveries, webhookSuppression,
                   policyByApiKey, decisionLogsByApiKey, call>>

NextScoring == ScoreAgent

SpecScoring == InitScoring /\ [][NextScoring]_vars

----------------------------------------------------------------------------
(* Claims about the scoring engine *)

HasScore == scored # NoScore

\* the event list and the policy the last ScoreResult was computed from
ScoredEvents == getAgentEvents(scopedAgentId(call.account, call.agentId))
ScoredPolicy ==
    IF call.op = "scoreAgent" THEN normalizedPolicy(call.policy)
    ELSE IF call.op = "getScore" THEN normalizedPolicy(getPolicy(call.account))
    ELSE normalizedPolicy(EmptyMap)

\* C7: for every event list and every policy the trust score and the
\* behavior score scoreAgent returns are integers from 0 to 100.
C7_ScoresInRange ==
    HasScore =>
        /\ scored.score \in SCORE_MIN..SCORE_MAX
        /\ scored.behavior.score \in SCORE_MIN..SCORE_MAX

\* the raw sums leave the range on both sides: five abandoned tasks put the
\* raw behavior score at -10 and the raw trust score at -20
C7_Witness ==
    /\ HasScore
    /\ Len(ScoredEvents) >= 5
    /\ \A i \in 1..Len(ScoredEvents) : ScoredEvents[i].eventType = "task_abandoned"
    /\ scored.score = SCORE_MIN
    /\ scored.behavior.score = SCORE_MIN

C7_WitnessMax ==
    /\ HasScore
    /\ Len(ScoredEvents) >= 5
    /\ \A i \in 1..Len(ScoredEvents) : ScoredEvents[i].eventType = "completed_task_on_time"
    /\ scored.behavior.score = SCORE_MAX

\* C8: included plus the four exclusion counters is the number of events
\* passed in, which is breakdown.lifetimeEvents.
C8_ExclusionConservation ==
    HasScore =>
        LET p == scored.breakdown.policy
            counted == p.included + p.excludedByConfidence + p.excludedBySource
                       + p.excludedByEventOverride + p.excludedByVerification
        IN  /\ counted = Len(ScoredEvents)
            /\ counted = scored.breakdown.lifetimeEvents

C8_Witness ==
    /\ HasScore
    /\ scored.breakdown.policy.included >= 1
    /\ scored.breakdown.policy.excludedByConfidence >= 1
    /\ scored.breakdown.policy.excludedBySource >= 1

\* a score read answered through getScore
ScoreRead == call.op = "getScore" /\ res.status = 200

\* the four exclusion conditions of an event under a policy, as stated
OverrideDisabled(e, p) ==
    /\ e.eventType \in DOMAIN p.eventOverrides
    /\ "enabled" \in DOMAIN p.eventOverrides[e.eventType]
    /\ ~p.eventOverrides[e.eventType].enabled
UnverifiedSensitive(e, p) ==
    /\ p.requireVerifiedSensitive
    /\ e.eventType \in SENSITIVE_EVENT_TYPES
    /\ e.sourceType # "verified_integration"
BelowMinConfidence(e, p) ==
    (IF e.confidence = NoNumber THEN 20 ELSE e.confidence) < p.minConfidence
SourceNotAllowed(e, p) ==
    p.allowedSources # {} /\ e.source \notin p.allowedSources

\* the events whose earliest matching condition is the n-th of the fixed order
FirstMatches(n) ==
    LET p == ScoredPolicy
        matches(e) == <<OverrideDisabled(e, p), UnverifiedSensitive(e, p),
                        BelowMinConfidence(e, p), SourceNotAllowed(e, p)>>
    IN  Cardinality({i \in 1..Len(ScoredEvents) :
                        /\ matches(ScoredEvents[i])[n]
                        /\ \A m \in 1..(n - 1) : ~matches(ScoredEvents[i])[m]})

\* one event with confidence 0.2 and source 'unknown' under
\* {minConfidence: 0.9, allowedSources: ['stripe']}
ScenarioD ==
    /\ ScoreRead
    /\ ScoredEvents = <<Spread(eventOf(WeakFailedPayment),
                               [sourceApiKey |-> call.account])>>
    /\ ScoredPolicy.minConfidence = 18
    /\ ScoredPolicy.allowedSources = {"stripe"}
    /\ ScoredPolicy.eventOverrides = EmptyMap
    /\ ~ScoredPolicy.requireVerifiedSensitive

\* C9: an event is counted under the first exclusion it matches in the
\* order override disabled, unverified sensitive, below minConfidence,
\* source not allowed; the event of Scenario D is counted under confidence
\* and not under source.
C9_FirstMatchWins ==
    ScoreRead =>
        LET p == scored.breakdown.policy
        IN  /\ p.excludedByEventOverride = FirstMatches(1)
            /\ p.excludedByVerification = FirstMatches(2)
            /\ p.excludedByConfidence = FirstMatches(3)
            /\ p.excludedBySource = FirstMatches(4)
            /\ ScenarioD => p.excludedByConfidence = 1 /\ p.excludedBySource = 0

C9_Witness == ScenarioD /\ scored.breakdown.policy.excludedByConfidence = 1

\* an event matching all four conditions is counted under the override
C9_WitnessAllFour ==
    /\ ScoreRead
    /\ \E i \in 1..Len(ScoredEvents) :
           /\ OverrideDisabled(ScoredEvents[i], ScoredPolicy)
           /\ UnverifiedSensitive(ScoredEvents[i], ScoredPolicy)
           /\ BelowMinConfidence(ScoredEvents[i], ScoredPolicy)
           /\ SourceNotAllowed(ScoredEvents[i], ScoredPolicy)
    /\ Len(ScoredEvents) = 1
    /\ scored.breakdown.policy.excludedByEventOverride = 1

IsExcluded(e) ==
    \/ OverrideDisabled(e, ScoredPolicy)
    \/ UnverifiedSensitive(e, ScoredPolicy)
    \/ BelowMinConfidence(e, ScoredPolicy)
    \/ SourceNotAllowed(e, ScoredPolicy)

IncludedEvents == SelectSeq(ScoredEvents, LAMBDA e : ~IsExcluded(e))

\* C10: the trust score of an event list is the trust score of the sub-list
\* of its included events, and it is the baseline 50 when every event is
\* excluded.
C10_ExcludedContributeNothing ==
    ScoreRead =>
        /\ scored.score = scoreAgent(call.agentId, IncludedEvents, ScoredPolicy).score
        /\ IncludedEvents = <<>> => scored.score = SCORE_BASELINE

\* an excluded negative event next to a counted one: the score differs
\* from the score of the whole list without the policy
C10_Witness ==
    /\ ScoreRead
    /\ IncludedEvents # <<>>
    /\ Len(IncludedEvents) < Len(ScoredEvents)
    /\ scored.score # SCORE_BASELINE
    /\ scored.score # scoreAgent(call.agentId, ScoredEvents, EmptyMap).score

C10_WitnessAllExcluded ==
    /\ ScoreRead
    /\ Len(ScoredEvents) >= 2
    /\ IncludedEvents = <<>>
    /\ scored.score = SCORE_BASELINE

----------------------------------------------------------------------------
(* Claims about the behaviour score inside scoreAgent *)

\* C11: the score scoreAgent returns is the clamped, rounded trust score: it
\* equals trust.baseScore and trust.finalScore, and the reported
\* behaviorInfluence is not added to it.
C11_ScoreIsBaseScore ==
    HasScore =>
        /\ scored.score = scored.trust.baseScore
        /\ scored.score = scored.trust.finalScore
        /\ scored.behavior.trustInfluence = scored.trust.behaviorInfluence
        /\ scored.level = levelFor(scored.trust.baseScore)

\* a negative influence is reported next to a score it could have lowered
C11_Witness ==
    /\ HasScore
    /\ scored.trust.behaviorInfluence < 0
    /\ scored.score > SCORE_MIN
    /\ scored.score = scored.trust.baseScore

\* a positive influence is reported next to a score it could have raised
C11_WitnessPositive ==
    /\ HasScore
    /\ scored.trust.behaviorInfluence > 0
    /\ scored.score < SCORE_MAX
    /\ scored.score = scored.trust.finalScore

\* C12: the behaviour score, its level and its breakdown are computed over
\* every event of the list: scoring the same events under any other policy
\* gives the same behaviour result.
C12_BehaviorIgnoresPolicy ==
    HasScore =>
        /\ \A p \in ScoringPolicyInputs :
               scoreAgent(call.agentId, ScoredEvents, p).behavior = scored.behavior
        /\ scored.behavior.score = calculateBehaviorScore(ScoredEvents, NowDay).score
        /\ scored.behavior.breakdown
               = calculateBehaviorScore(ScoredEvents, NowDay).breakdown

\* the policy excluded every event from the trust score, yet the behaviour
\* score moved away from its baseline and its breakdown counts an event
C12_Witness ==
    /\ HasScore
    /\ scored.breakdown.lifetimeEvents > 0
    /\ scored.breakdown.policy.included = 0
    /\ scored.score = SCORE_BASELINE
    /\ scored.behavior.score # 60
    /\ scored.behavior.breakdown.severeRisk30d > 0

----------------------------------------------------------------------------
(* Claims about the policy operations *)

\* C13: when setPolicy throws (the body is not an object, minConfidence is not
\* a number, allowedSources is not an array, a sourceTypeMultipliers value is
\* not a number, an eventOverrides entry is malformed, requireVerifiedSensitive
\* is not boolean) nothing is stored: getPolicy gives every tenant exactly what
\* it gave before the call, even when other fields of the body were valid.
C13_ThrowStoresNothing ==
    [][ /\ (call'.op = "setPolicy" /\ call'.payload \in InvalidPolicyPayloads)
            => res'.status = 400
        /\ (call'.op = "setPolicy" /\ res'.status = 400)
            => /\ policyByApiKey' = policyByApiKey
               /\ \A k \in ApiKeys : getPolicy(k)' = getPolicy(k) ]_vars

\* a tenant with a stored policy of its own sent a body whose minConfidence
\* was valid and whose later field was malformed
C13_Witness ==
    /\ call.op = "setPolicy"
    /\ res.status = 400
    /\ "minConfidence" \in DOMAIN call.payload
    /\ call.payload.minConfidence = 10
    /\ call.account \in DOMAIN policyByApiKey
    /\ getPolicy(call.account).minConfidence # 10
    /\ getPolicy(call.account).allowedSources # {}

----------------------------------------------------------------------------
(* Claims about scoreAgent as a function of its inputs *)

----------------------------------------------------------------------------
(* Claims about the decay of an event's contribution *)

\* what the event at position i of the scored list added to scoreValue
ContributionAt(i) ==
    LET event == ScoredEvents[i]
        c == contributionOf(event,
                            evaluatePolicy(event, ScoredPolicy, confidenceFactor(event)),
                            NowDay)
    IN  IF c < 0 THEN 0 - c ELSE c

AgeAt(i) == daysSince(ScoredEvents[i].createdAt, NowDay)

\* positions <<newer, older>> of two events that differ in nothing but their age
AgedTwins ==
    {<<i, j>> \in (DOMAIN ScoredEvents) \X (DOMAIN ScoredEvents) :
        /\ AgeAt(i) < AgeAt(j)
        /\ [ScoredEvents[j] EXCEPT !.createdAt = ScoredEvents[i].createdAt]
               = ScoredEvents[i]}

\* C19: of two events scored in one call that are identical except for their
\* age, the older one has the smaller decay factor (decay(a) > decay(b) exactly
\* when a < b) and never the larger absolute contribution; its contribution is
\* strictly smaller whenever the newer one contributes at all.
C19_OlderContributesLess ==
    HasScore =>
        /\ \A t \in AgedTwins :
               /\ decay(AgeAt(t[1])) > decay(AgeAt(t[2]))
               /\ ContributionAt(t[2]) <= ContributionAt(t[1])
               /\ ContributionAt(t[1]) > 0 => ContributionAt(t[2]) < ContributionAt(t[1])
        /\ \A i, j \in DOMAIN ScoredEvents :
               decay(AgeAt(i)) > decay(AgeAt(j)) <=> AgeAt(i) < AgeAt(j)

\* two included twins, one and two half-lives apart in age, both contributing
C19_Witness ==
    /\ HasScore
    /\ \E t \in AgedTwins :
           /\ ContributionAt(t[2]) > 0
           /\ ContributionAt(t[2]) < ContributionAt(t[1])
           /\ AgeAt(t[1]) > 0

\* C19 as stated: the older twin's absolute contribution is always strictly
\* smaller
C19_OlderStrictlyLess ==
    HasScore =>
        \A t \in AgedTwins : ContributionAt(t[2]) < ContributionAt(t[1])

----------------------------------------------------------------------------
(* Claims about the ledger under every operation *)

\* the events of a scope are still there, in place and field for field
KeepsPrefix(old, new) ==
    /\ Len(new) >= Len(old)
    /\ SubSeq(new, 1, Len(old)) = old

\* C16: across postEvent, ingestVerifiedEvent, getScore, preflight, the policy,
\* webhook and key rotate/revoke operations the event list of every (tenant,
\* agent) scope only grows at its end: an event keeps its position and all its
\* field values and is never removed.
C16_AppendOnly ==
    [][\A scope \in DOMAIN eventsByAgentId :
           /\ scope \in DOMAIN eventsByAgentId'
           /\ KeepsPrefix(eventsByAgentId[scope], eventsByAgentId'[scope])]_vars

\* a second event was appended behind the first, and the key that posted them
\* has since been rotated away or revoked
C16_Witness ==
    \E scope \in DOMAIN eventsByAgentId :
        /\ Len(eventsByAgentId[scope]) = MaxLedger
        /\ eventsByAgentId[scope][1].eventType = "api_key_leak"
        /\ eventsByAgentId[scope][MaxLedger].eventType = "payment_success"
        /\ scope[1] \notin DOMAIN users

\* events of a revoked key next to events its owner posted under a new key
C16_WitnessRotated ==
    /\ call.op = "revokeUserApiKey"
    /\ \E s1 \in DOMAIN eventsByAgentId, s2 \in DOMAIN eventsByAgentId :
           /\ s1[1] # s2[1]
           /\ eventsByAgentId[s1] # <<>>
           /\ eventsByAgentId[s2] # <<>>

----------------------------------------------------------------------------
(* Claims about tenants *)

RECURSIVE LedgerOf(_)
\* every event of the given scopes, scope after scope
LedgerOf(scopes) ==
    IF scopes = {} THEN <<>>
    ELSE LET scope == CHOOSE x \in scopes : TRUE
         IN  eventsByAgentId[scope] \o LedgerOf(scopes \ {scope})

\* the events an API key posted for an agent, in the order it posted them
PostedUnder(apiKey, agentId) ==
    SelectSeq(LedgerOf(DOMAIN eventsByAgentId),
              LAMBDA e : e.sourceApiKey = apiKey /\ e.agentId = agentId)

\* what a read under call.account has to return: the score of the events that
\* key posted for the agent, under that key's policy
OwnScore ==
    scoreAgent(normalizeAgentId(call.agentId),
               PostedUnder(call.account, normalizeAgentId(call.agentId)),
               getPolicy(call.account))

\* the last answer is a score read of one of the given operations
ScoreAnsweredBy(ops) == call.op \in ops /\ res.status = 200

\* the last answer carries the score of the caller's own events
AnswersOwnScore ==
    /\ call.op = "getScore" => res.body = OwnScore
    /\ call.op # "getScore" => res.body.trust.score = OwnScore.score
    /\ scored = OwnScore
    /\ PostedUnder(call.account, normalizeAgentId(call.agentId)) = <<>> =>
           /\ scored.score = SCORE_BASELINE
           /\ scored.breakdown.lifetimeEvents = 0

\* C17: events and scores are isolated per API key: for every agentId, getScore
\* and preflight under a key use exactly the events posted under that key
\* (score 50 and lifetimeEvents 0 when it posted none), whatever other keys
\* posted for the same agentId; so an event posted under one key never changes
\* a result returned to another.
C17_TenantIsolation ==
    ScoreAnsweredBy({"getScore", "clawCreditPreflight", "clawCreditPreflightGated"}) =>
        AnswersOwnScore

\* C17, for the reads that go through scopedAgentId: getScore and the preflight
\* that scores through scoreForAccountAgent answer from the caller's own events.
C17_ScopedReadsIsolated ==
    ScoreAnsweredBy({"getScore", "clawCreditPreflight"}) => AnswersOwnScore

\* key_a posted a key leak for the agent, key_b reads the agent's score and
\* gets the baseline
C17_Witness ==
    /\ ScoreAnsweredBy({"getScore"})
    /\ call.account = "key_b"
    /\ \E i \in DOMAIN PostedUnder("key_a", call.agentId) :
           PostedUnder("key_a", call.agentId)[i].eventType = "api_key_leak"
    /\ res.body.score = SCORE_BASELINE
    /\ res.body.breakdown.lifetimeEvents = 0

\* both keys posted for the agent, and key_b is answered a preflight
C17_WitnessPreflight ==
    /\ ScoreAnsweredBy({"clawCreditPreflight"})
    /\ call.account = "key_b"
    /\ PostedUnder("key_a", call.agentId) # <<>>
    /\ PostedUnder("key_b", call.agentId) # <<>>
    /\ PostedUnder("key_a", call.agentId) # PostedUnder("key_b", call.agentId)

----------------------------------------------------------------------------
(* Claims about score alerts *)

\* the delivery rows recorded for a webhook
DeliveriesOf(id) ==
    IF id \in DOMAIN webhookDeliveries THEN webhookDeliveries[id] ELSE <<>>

\* the score of an agent as postEvent computes it, from the key's own events
PostedScore(apiKey, agentId) ==
    scoreAgent(agentId, getAgentEvents(scopedAgentId(apiKey, agentId)), EmptyMap).score

\* the last request appended an event
EventAccepted == call.op \in {"postEvent", "ingestVerifiedEvent"} /\ res.status = 201

\* C20: a webhook delivery for an agent is attempted only when an accepted
\* event of an account that is not on the free tier takes the agent's score,
\* as postEvent computes it, from strictly above the webhook's threshold to at
\* or below it; an event that leaves the score at or below the threshold, or
\* raises it, or belongs to a free-tier account causes no delivery.
C20_AlertOnlyOnDownwardCrossing ==
    [][\A id \in 1..MaxWebhooks :
           Len(DeliveriesOf(id)') > Len(DeliveriesOf(id)) =>
               /\ EventAccepted'
               /\ \A apiKey \in KeyPool :
                      call'.account = apiKey =>
                          /\ users[apiKey] # "free"
                          /\ \E i \in DOMAIN listWebhooks(apiKey) :
                                 /\ listWebhooks(apiKey)[i].id = id
                                 /\ PostedScore(apiKey, call'.agentId)
                                        > listWebhooks(apiKey)[i].threshold
                                 /\ res'.body.score.value
                                        <= listWebhooks(apiKey)[i].threshold
                                 /\ DeliveriesOf(id)'[1].score = res'.body.score.value]_vars

\* a key leak took the score from 50 to below the threshold 40 and the
\* delivery was recorded
C20_Witness ==
    /\ EventAccepted
    /\ \E i \in DOMAIN listWebhooks(call.account) :
           LET w == listWebhooks(call.account)[i]
           IN  /\ w.threshold = 40
               /\ DeliveriesOf(w.id) # <<>>
               /\ DeliveriesOf(w.id)[1].score = res.body.score.value
               /\ res.body.score.value <= w.threshold

\* the score was at 50, under the threshold 55, and fell further: no delivery
C20_WitnessAlreadyBelow ==
    /\ EventAccepted
    /\ users[call.account] # "free"
    /\ Len(getAgentEvents(scopedAgentId(call.account, call.agentId))) = 1
    /\ res.body.score.value < SCORE_BASELINE
    /\ \E i \in DOMAIN listWebhooks(call.account) :
           LET w == listWebhooks(call.account)[i]
           IN  w.threshold = 55 /\ w.enabled /\ DeliveriesOf(w.id) = <<>>

\* the event raised the score above the threshold: no delivery
C20_WitnessRaised ==
    /\ EventAccepted
    /\ users[call.account] # "free"
    /\ res.body.score.value > 55
    /\ \E i \in DOMAIN listWebhooks(call.account) :
           LET w == listWebhooks(call.account)[i]
           IN  w.threshold = 55 /\ w.enabled /\ DeliveriesOf(w.id) = <<>>

\* an account downgraded to the free tier keeps its webhook; its event takes
\* the score from 50 down through the threshold 40 and nothing is delivered
C20_WitnessFreeTier ==
    /\ EventAccepted
    /\ users[call.account] = "free"
    /\ Len(getAgentEvents(scopedAgentId(call.account, call.agentId))) = 1
    /\ res.body.score.value <= 40
    /\ \E i \in DOMAIN listWebhooks(call.account) :
           LET w == listWebhooks(call.account)[i]
           IN  w.threshold = 40 /\ w.enabled /\ DeliveriesOf(w.id) = <<>>

\* after the rise above 55 a key leak crosses the threshold 55
C20_WitnessCrossAfterRise ==
    /\ EventAccepted
    /\ Len(getAgentEvents(scopedAgentId(call.account, call.agentId))) = MaxLedger
    /\ \E i \in DOMAIN listWebhooks(call.account) :
           LET w == listWebhooks(call.account)[i]
           IN  w.threshold = 55 /\ DeliveriesOf(w.id) # <<>>

----------------------------------------------------------------------------
(* Claims about the 30-day breakdown *)

\* the events of the scored list, not older than 30 days, that satisfy test
Recent30d(test(_)) ==
    Cardinality({i \in 1..Len(ScoredEvents) :
                    /\ Max(0, NowDay - ScoredEvents[i].createdAt) <= 30
                    /\ test(ScoredEvents[i])})

\* C25: positive30d, neutral30d and negative30d count every event with
\* ageDays <= 30 by kind, excluded by the policy or not; severeNegative30d
\* counts the negative ones of them whose eventType is in the sensitive set;
\* the same event list has the same four counts under every policy.
C25_BreakdownIgnoresPolicy ==
    HasScore =>
        /\ scored.breakdown.positive30d = Recent30d(LAMBDA e : e.kind = "positive")
        /\ scored.breakdown.neutral30d = Recent30d(LAMBDA e : e.kind = "neutral")
        /\ scored.breakdown.negative30d = Recent30d(LAMBDA e : e.kind = "negative")
        /\ scored.breakdown.severeNegative30d
               = Recent30d(LAMBDA e : /\ e.kind = "negative"
                                      /\ e.eventType \in SENSITIVE_EVENT_TYPES)
        /\ \A p \in ScoringPolicyInputs :
               \A f \in {"positive30d", "neutral30d", "negative30d",
                         "severeNegative30d"} :
                   scoreAgent(call.agentId, ScoredEvents, p).breakdown[f]
                       = scored.breakdown[f]

\* the policy excluded every event, among them a recent sensitive negative
\* one, and the breakdown counts them all
C25_Witness ==
    /\ HasScore
    /\ scored.breakdown.policy.included = 0
    /\ scored.breakdown.severeNegative30d >= 1
    /\ scored.breakdown.negative30d >= 1
    /\ scored.breakdown.positive30d >= 1

\* an event older than 30 days is left out of the counts, one of exactly 30
\* days is in them
C25_WitnessAged ==
    /\ HasScore
    /\ Len(ScoredEvents) = 2
    /\ ScoredEvents[1].createdAt = HalfLifeAgo
    /\ ScoredEvents[2].createdAt < HalfLifeAgo
    /\ ScoredEvents[1].kind = "negative" /\ ScoredEvents[2].kind = "negative"
    /\ scored.breakdown.negative30d = 1

----------------------------------------------------------------------------
(* Claims about the confidence of a submitted event *)

\* an event was accepted whose request carried no number as confidence: the
\* field was absent, or null
AcceptedWithout(values) ==
    /\ call.op = "postEvent"
    /\ res.status = 201
    /\ call.confidence \in values

BelowMinConfidence10(event) ==
    evaluatePolicy(event, normalizedPolicy([minConfidence |-> 10]),
                   confidenceFactor(event)).reason = "below_min_confidence"

\* C26: the event of a request without a usable confidence value (absent, or
\* not a number) has confidenceFactor 1, and no policy excludes it as
\* below_min_confidence.
C26_MissingConfidenceIsFull ==
    AcceptedWithout({NoNumber, JsonNull}) =>
        /\ confidenceFactor(res.body.event) = FactorScale
        /\ ~BelowMinConfidence10(res.body.event)

\* C26, as far as it holds: confidenceFactor is within [0, 1], it is the
\* submitted number clamped, and it is 1 for an event submitted without the
\* confidence field, which minConfidence then never excludes.
C26_AbsentConfidenceIsFull ==
    /\ AcceptedWithout({NoNumber}) =>
           /\ confidenceFactor(res.body.event) = FactorScale
           /\ ~BelowMinConfidence10(res.body.event)
    /\ (call.op = "postEvent" /\ res.status = 201) =>
           /\ confidenceFactor(res.body.event) \in 0..FactorScale
           /\ call.confidence >= 0 =>
                  confidenceFactor(res.body.event) = Min(call.confidence, FactorScale)

\* an event without the field is in the ledger and is counted as included
\* under minConfidence 0.5
C26_Witness ==
    /\ ScoreRead
    /\ ScoredPolicy.minConfidence = 10
    /\ \E i \in 1..Len(ScoredEvents) : ScoredEvents[i].confidence = NoNumber
    /\ scored.breakdown.policy.excludedByConfidence = 0
    /\ scored.breakdown.policy.included >= 1

\* a confidence of 2 was submitted and counts as 1
C26_WitnessClamped ==
    /\ AcceptedWithout({40})
    /\ confidenceFactor(res.body.event) = FactorScale

\* the event submitted with confidence null is excluded as below_min_confidence
C26_WitnessNull ==
    /\ ScoreRead
    /\ ScoredPolicy.minConfidence = 10
    /\ Len(ScoredEvents) = 1
    /\ ScoredEvents[1].eventType = "payment_success"
    /\ ScoredEvents[1].confidence = 0
    /\ scored.breakdown.policy.excludedByConfidence = 1

----------------------------------------------------------------------------
(* Claims about the score postEvent returns *)

\* what getScore answers for the account and agent of the call, now
ScoreReadNow == scoreForAccountAgent(call.account, call.agentId)

\* C29: the score a successful postEvent returns is computed under the
\* tenant's stored policy: it is the score getScore returns for the same
\* tenant and agent at that instant.
C29_PostedScoreIsReadScore ==
    (call.op = "postEvent" /\ res.status = 201) =>
        /\ res.body.score.value = ScoreReadNow.score
        /\ res.body.score.level = ScoreReadNow.level

\* C29, as far as it holds: for a tenant without a stored policy the score
\* postEvent returns is the one getScore returns, and with a stored policy it
\* is the score of the same events under the default policy.
C29_PostedScoreIsDefaultPolicyScore ==
    (call.op = "postEvent" /\ res.status = 201) =>
        /\ call.account \notin DOMAIN policyByApiKey =>
               res.body.score.value = ScoreReadNow.score
        /\ res.body.score.value = scoreAgent(call.agentId, ScoredEvents, EmptyMap).score
        /\ scored.breakdown.policy.included = Len(ScoredEvents)

\* an event was accepted for a tenant without a stored policy and moved the
\* score
C29_Witness ==
    /\ call.op = "postEvent" /\ res.status = 201
    /\ call.account \notin DOMAIN policyByApiKey
    /\ res.body.score.value # SCORE_BASELINE
    /\ res.body.score.value = ScoreReadNow.score

\* with minConfidence 0.5 stored, the accepted event of confidence 0.2 is
\* excluded from what getScore answers and counted in what postEvent returns
C29_WitnessStoredPolicy ==
    /\ call.op = "postEvent" /\ res.status = 201
    /\ call.account \in DOMAIN policyByApiKey
    /\ ScoreReadNow.breakdown.policy.excludedByConfidence >= 1
    /\ res.body.score.value < ScoreReadNow.score

----------------------------------------------------------------------------
(* Claims about the preflight decision and the risk of the action *)

\* allow < review < block
Strictness(decision) ==
    CASE decision = "allow" -> 0
      [] decision = "review" -> 1
      [] decision = "block" -> 2

\* the action contexts with every risk factor of payload and possibly more:
\* an amount at least as high, every flag that is set still set
AtLeastAsRisky(payload) ==
    {q \in PreflightPayloads :
        /\ q.agentId = payload.agentId
        /\ toNumber(q.amountUsd, 0) >= toNumber(payload.amountUsd, 0)
        /\ payload.newPayee => q.newPayee
        /\ payload.firstTimeCounterparty => q.firstTimeCounterparty
        /\ payload.highPrivilegeAction => q.highPrivilegeAction
        /\ payload.exposesApiKeys => q.exposesApiKeys}

\* the decision of the handler of the call for another action context, the
\* agent's score result and the tenant policy being those of the call
DecisionFor(payload) ==
    IF call.op = "clawCreditPreflight"
    THEN clawCreditPreflight(call.account, payload, scored).body.decision
    ELSE clawCreditPreflightGated(call.account, payload, getPolicy(call.account),
                                  scored).body.decision

\* C30: for a fixed score result and policy, an action context with more
\* risk (a higher amountUsd, more flags set) is never decided more
\* permissively, in the order allow < review < block; its risk penalty and
\* adjusted score move the same way.
C30_DecisionMonotoneInRisk ==
    Answered =>
        \A q \in AtLeastAsRisky(call.payload) :
            /\ Strictness(DecisionFor(q)) >= Strictness(res.body.decision)
            /\ riskFromPayload(q) >= res.body.policy.riskPenalty

\* an allowed action that one more flag turns into a block, through the
\* severe-incident override
C30_Witness ==
    /\ AnsweredBy("clawCreditPreflight")
    /\ res.body.decision = "allow"
    /\ res.body.policy.riskPenalty = 15
    /\ scored.breakdown.severeNegative30d >= 2
    /\ \E q \in AtLeastAsRisky(call.payload) :
           /\ riskFromPayload(q) = 25
           /\ DecisionFor(q) = "block"

\* the signal-quality gate holds an action at review; a riskier one is
\* blocked, none is allowed
C30_WitnessGated ==
    /\ AnsweredBy("clawCreditPreflightGated")
    /\ res.body.decision = "review"
    /\ res.body.policy.adjustedScore >= 55
    /\ \E q \in AtLeastAsRisky(call.payload) : DecisionFor(q) = "block"
    /\ \A q \in AtLeastAsRisky(call.payload) : DecisionFor(q) # "allow"

----------------------------------------------------------------------------
(* Claims about the ledger across a key rotation *)

\* the step rotates oldApiKey into newApiKey
RotatedInto(oldApiKey, newApiKey) ==
    /\ oldApiKey \in DOMAIN users
    /\ oldApiKey \notin DOMAIN users'
    /\ call'.op = "rotateUserApiKey"
    /\ call'.account = oldApiKey
    /\ res'.body.apiKey = newApiKey

\* C28: after rotateUserApiKey, getScore and preflight under the new key
\* answer for every agent from the same score result (score, lifetimeEvents
\* and the rest) as the old key did just before the rotation.
C28_LedgerFollowsRotation ==
    [][\A oldApiKey \in KeyPool, newApiKey \in KeyPool, agentId \in Agents :
           RotatedInto(oldApiKey, newApiKey) =>
               scoreForAccountAgent(newApiKey, agentId)'
                   = scoreForAccountAgent(oldApiKey, agentId)]_vars

\* C28, as the code has it: once a key is rotated the new key reads an
\* empty ledger for every agent until it posts itself, and the events stay
\* under the scope of the old key.
C28_RotationLeavesLedger ==
    (call.op = "rotateUserApiKey" /\ res.status = 200) =>
        \A agentId \in Agents :
            /\ getAgentEvents(scopedAgentId(res.body.apiKey, agentId)) = <<>>
            /\ scoreForAccountAgent(res.body.apiKey, agentId).breakdown.lifetimeEvents = 0
            /\ scoreForAccountAgent(res.body.apiKey, agentId).score = SCORE_BASELINE

\* a key with an event in its ledger was rotated, and the score read under
\* the new key reports no event
C28_Witness ==
    /\ ScoreRead
    /\ call.account # "key_a"
    /\ scored.breakdown.lifetimeEvents = 0
    /\ scored.score = SCORE_BASELINE
    /\ \E agentId \in Agents : PostedUnder("key_a", agentId) # <<>>
    /\ "key_a" \notin DOMAIN users

----------------------------------------------------------------------------
(* Claims about the monthly limits of a plan *)

\* the usage of a tenant never passes the limits of its plan: the events
\* logged, the score checks and the tracked agents of the
\* month stay at or under maxEventsPerMonth, maxChecksPerMonth and maxAgents.
C22_UsageWithinPlan ==
    \A apiKey \in DOMAIN users :
        /\ getUsage(apiKey).eventsLogged <= PLANS[users[apiKey]].maxEventsPerMonth
        /\ getUsage(apiKey).scoreChecks <= PLANS[users[apiKey]].maxChecksPerMonth
        /\ Cardinality(getUsage(apiKey).trackedAgents) <= PLANS[users[apiKey]].maxAgents

LedgerSize ==
    Cardinality({<<k, i>> \in (DOMAIN eventsByAgentId)
                                  \X (1..(PLANS.free.maxEventsPerMonth + 1)) :
                     i <= Len(eventsByAgentId[k])})

\* the month's counters of every tenant, as the handlers read them
UsageRead == [apiKey \in DOMAIN users |-> getUsage(apiKey)]

\* a postEvent or getScore call that is valid and not rate limited or a
\* duplicate, and would take the tenant over a limit
WouldExceed(op) ==
    /\ call'.op = op
    /\ res'.status \notin {400, 409, 429}
    /\ \/ /\ call'.agentId \notin getUsage(call'.account).trackedAgents
          /\ Cardinality(getUsage(call'.account).trackedAgents)
                 = PLANS[users[call'.account]].maxAgents
       \/ /\ op = "postEvent"
          /\ getUsage(call'.account).eventsLogged
                 = PLANS[users[call'.account]].maxEventsPerMonth
       \/ /\ op = "getScore"
          /\ getUsage(call'.account).scoreChecks
                 = PLANS[users[call'.account]].maxChecksPerMonth

\* the postEvent or getScore call that would exceed a
\* limit of the plan is answered 402, appends no event and leaves every
\* usage counter as it was; a call answered 402 is such a call.
C22_ExceedingCallIsRefused ==
    [][\A op \in {"postEvent", "getScore"} :
           /\ WouldExceed(op) => res'.status = 402
           /\ (call'.op = op /\ res'.status = 402)
                  => /\ eventsByAgentId' = eventsByAgentId
                     /\ UsageRead' = UsageRead]_vars

\* C22: after any sequence of postEvent and getScore calls of a tenant the
\* usage is within the limits of its plan, and the call that would exceed a
\* limit returns 402, appends no event and changes no usage counter.
C22_PlanLimitsHold == []C22_UsageWithinPlan /\ C22_ExceedingCallIsRefused

\* a call was refused at the limit of the events, of the score checks and of
\* the tracked agents
C22_Witness ==
    /\ call.op = "postEvent" /\ res.status = 402
    /\ getUsage(call.account).eventsLogged = PLANS.free.maxEventsPerMonth
    /\ LedgerSize = PLANS.free.maxEventsPerMonth

C22_WitnessChecks ==
    /\ call.op = "getScore" /\ res.status = 402
    /\ call.agentId \in getUsage(call.account).trackedAgents
    /\ getUsage(call.account).scoreChecks = PLANS.free.maxChecksPerMonth

C22_WitnessAgents ==
    /\ call.op = "getScore" /\ res.status = 402
    /\ call.agentId \notin getUsage(call.account).trackedAgents
    /\ Cardinality(getUsage(call.account).trackedAgents) = PLANS.free.maxAgents
    /\ getUsage(call.account).scoreChecks < PLANS.free.maxChecksPerMonth

----------------------------------------------------------------------------
(* Claims about the alerts of overlapping calls *)

\* the (webhookId, agentId) pair whose POST the n-th pending call awaits
AwaitedPair(n) ==
    <<pendingDeliveries[n].webhooks[pendingDeliveries[n].awaiting].id,
      pendingDeliveries[n].agentId>>

\* the pair of the call that began to await last
LastAwaitedPair == AwaitedPair(Len(pendingDeliveries))

\* C21: for each (webhookId, agentId) pair at most one delivery attempt is
\* made within a cooldown window, also when postEvent calls overlap: no two
\* calls await the answer of a POST for the same pair at once.
C21_OneAttemptPerCooldown ==
    \A n, m \in DOMAIN pendingDeliveries : AwaitedPair(n) = AwaitedPair(m) => n = m

\* C21, as far as it holds: a delivery attempt never begins for a pair whose
\* cooldown has started, and a call that begins one after every earlier
\* attempt was answered is the only one awaiting.
C21_NoAttemptDuringStartedCooldown ==
    [][Len(pendingDeliveries') > Len(pendingDeliveries)
           => /\ LastAwaitedPair' \notin webhookSuppression
              /\ (pendingDeliveries = <<>> => C21_OneAttemptPerCooldown')]_vars

\* a crossing was suppressed by a started cooldown, while nothing was awaited
C21_Witness ==
    /\ call.op = "postEvent" /\ res.status = 201
    /\ pendingDeliveries = <<>>
    /\ \E pair \in webhookSuppression :
           /\ pair[2] = call.agentId
           /\ \E i \in DOMAIN listWebhooks(call.account) :
                  /\ listWebhooks(call.account)[i].id = pair[1]
                  /\ res.body.score.value <= listWebhooks(call.account)[i].threshold
                  /\ Len(webhookDeliveries[pair[1]]) = 1
    /\ Len(getAgentEvents(scopedAgentId(call.account, call.agentId))) = 3

\* two POSTs for one pair are awaited at once, for two crossings
C21_WitnessOverlap ==
    \E n, m \in DOMAIN pendingDeliveries :
        /\ n < m
        /\ AwaitedPair(n) = AwaitedPair(m)
        /\ pendingDeliveries[n].score < pendingDeliveries[m].previousScore
        /\ AwaitedPair(n) \notin webhookSuppression

----------------------------------------------------------------------------
(* Claims about the processed ids of signed inbound events *)

\* the events of an inbound id in the tenant's ledger
InboundAppended(key) ==
    Cardinality({<<scope, i>> \in (DOMAIN eventsByAgentId) \X (1..MaxEvents) :
                     /\ scope[1] = key[1]
                     /\ i <= Len(eventsByAgentId[scope])
                     /\ eventsByAgentId[scope][i].source = key[2]
                     /\ eventsByAgentId[scope][i].externalEventId = key[3]})

InboundKeys == {<<apiKey, payload.source, payload.eventId>> :
                    apiKey \in KeyPool, payload \in InboundPayloads}

\* the inbound id of the last call
CallKey == <<call.account, call.source, call.eventId>>

\* a step of ingestVerifiedEvent that passed the signature check: no answer
\* of an awaited POST and no lapse of time is part of it
VerifiedIngestStep ==
    /\ call'.op = "ingestVerifiedEvent"
    /\ res'.status \notin {401, 403}
    /\ webhookSuppression' = webhookSuppression
    /\ processedInboundEvents \subseteq processedInboundEvents'
    /\ Len(pendingDeliveries') >= Len(pendingDeliveries)
    /\ <<call, res, processedInboundEvents, eventsByAgentId>>'
           # <<call, res, processedInboundEvents, eventsByAgentId>>

\* C23: an event of an inbound id is appended only while the id is not among
\* the processed ids, one event at a time, and the id is processed from then
\* on; a valid submission of a processed id returns 200 with duplicate true
\* and appends nothing.
C23_InboundIdAppendedOnce ==
    [][/\ \A key \in InboundKeys :
              InboundAppended(key)' # InboundAppended(key)
                  => /\ key \notin processedInboundEvents
                     /\ key \in processedInboundEvents'
                     /\ InboundAppended(key)' = InboundAppended(key) + 1
       /\ (VerifiedIngestStep /\ CallKey' \in processedInboundEvents)
              => /\ res' = [status |-> 200,
                            body |-> [accepted |-> TRUE, duplicate |-> TRUE]]
                 /\ eventsByAgentId' = eventsByAgentId]_vars

\* a repeated submission was answered as a duplicate with its one event in
\* the ledger
C23_Witness ==
    /\ call.op = "ingestVerifiedEvent"
    /\ res.status = 200 /\ res.body.duplicate
    /\ InboundAppended(CallKey) = 1

\* the same while the alert of the first submission still awaits its answer
C23_WitnessOverlap ==
    /\ C23_Witness
    /\ pendingDeliveries # <<>>
    /\ getAgentEvents(scopedAgentId(call.account, call.agentId))
           [Len(getAgentEvents(scopedAgentId(call.account, call.agentId)))]
               .externalEventId = call.eventId

\* C27: whenever ingestVerifiedEvent answers duplicate true for (apiKey,
\* source, eventId), an event with that externalEventId from that source is
\* in the tenant's ledger.
C27_DuplicateMeansAppended ==
    (call.op = "ingestVerifiedEvent" /\ res.status = 200 /\ res.body.duplicate)
        => InboundAppended(CallKey) >= 1

\* C27, as far as it holds: a verified submission with a source and an id
\* leaves the id among the processed ids, whatever postEvent answers.
C27_SubmittedIdIsProcessed ==
    [][(VerifiedIngestStep /\ call'.source # "") => CallKey' \in processedInboundEvents']_vars

\* a retry was answered as a duplicate after postEvent refused the first
\* submission: the ledger holds no event of the id
C27_Witness ==
    /\ call.op = "ingestVerifiedEvent"
    /\ res.status = 200 /\ res.body.duplicate
    /\ InboundAppended(CallKey) = 0
    /\ CallKey \in processedInboundEvents

----------------------------------------------------------------------------
(* Claims about the account data across a key rotation *)

\* the map holds under newApiKey what it held under oldApiKey, and nothing
\* under oldApiKey
MovedTo(map, mapAfter, oldApiKey, newApiKey) ==
    /\ oldApiKey \notin DOMAIN mapAfter
    /\ (newApiKey \in DOMAIN mapAfter) = (oldApiKey \in DOMAIN map)
    /\ oldApiKey \in DOMAIN map => mapAfter[newApiKey] = map[oldApiKey]

\* C24: after a successful rotation the old key resolves to no tier, the new
\* key has the tier the old key had, and the tenant's usage counters,
\* webhooks, decision logs, policy, ingest secret and processed inbound ids
\* are held under the new key with none left under the old key.
C24_RotationMovesAccountData ==
    [][\A oldApiKey \in DOMAIN users, newApiKey \in KeyPool \ DOMAIN users :
           (/\ call'.op = "rotateUserApiKey" /\ call'.account = oldApiKey
            /\ res'.status = 200 /\ res'.body.apiKey = newApiKey
            /\ newApiKey \in DOMAIN users')
               => /\ MovedTo(users, users', oldApiKey, newApiKey)
                  /\ res'.body.tier = users[oldApiKey]
                  /\ MovedTo(usageByMonthAndApiKey, usageByMonthAndApiKey',
                             oldApiKey, newApiKey)
                  /\ MovedTo(webhooksByApiKey, webhooksByApiKey', oldApiKey, newApiKey)
                  /\ MovedTo(decisionLogsByApiKey, decisionLogsByApiKey',
                             oldApiKey, newApiKey)
                  /\ MovedTo(policyByApiKey, policyByApiKey', oldApiKey, newApiKey)
                  /\ MovedTo(inboundSecretsByApiKey, inboundSecretsByApiKey',
                             oldApiKey, newApiKey)
                  /\ \A key \in processedInboundEvents' : key[1] # oldApiKey
                  /\ \A key \in processedInboundEvents :
                         key[1] = oldApiKey
                             => <<newApiKey, key[2], key[3]>> \in processedInboundEvents'
                  /\ Cardinality(processedInboundEvents')
                         = Cardinality(processedInboundEvents)]_vars

\* a key was rotated with every one of the maps filled: the new key holds a
\* logged event, a webhook, a decision log row, a policy, an ingest secret
\* and a processed inbound id
C24_Witness ==
    /\ call.op = "rotateUserApiKey" /\ res.status = 200
    /\ res.body.apiKey \in DOMAIN users
    /\ call.account \notin DOMAIN users
    /\ getUsage(res.body.apiKey).eventsLogged >= 1
    /\ listWebhooks(res.body.apiKey) # <<>>
    /\ res.body.apiKey \in DOMAIN decisionLogsByApiKey
    /\ res.body.apiKey \in DOMAIN policyByApiKey
    /\ res.body.apiKey \in DOMAIN inboundSecretsByApiKey
    /\ \E key \in processedInboundEvents : key[1] = res.body.apiKey

====
